---- MODULE Spec2Model ----
(***************************************************************************)
(* Push2D: a bounded 2-D arena with a controllable agent circle and        *)
(* obstacle circles.  The model follows push_2d/core.py (Push2D),          *)
(* push_2d/component.py (Circle, Agent, Space) and push_2d/reward.py.      *)
(*                                                                         *)
(* Units: positions are pixels, velocities pixels per second, rewards are  *)
(* counted in halves (0, 1, 2 stand for 0.0, 0.5, 1.0).                    *)
(***************************************************************************)
EXTENDS Integers, Sequences, FiniteSets, TLC

VARIABLES
    agent_params,       \* Push2D.agent_params
    obstacles_params,   \* Push2D.obstacles_params
    reward_factory,     \* Push2D.reward_factory (the class it instantiates)
    space,              \* pymunk.Space contents: bodies, shapes, constraints
    screen,             \* Space.screen: what the last debug_draw rasterized
    bodies,             \* heap of pymunk.Body objects: type, position, velocity
    shapes,             \* heap of pymunk.Shape objects
    constraints,        \* heap of pymunk.Constraint objects
    agent,              \* Push2D.agent
    obstacles,          \* Push2D.obstacles
    call,               \* the last call made on the environment and its input
    ret,                \* what that call returned (or the exception it raised)
    acceleration,       \* Push2D._acceleration (src/push_2d/environment.py)
    display,            \* the frame the window shows: the last one flipped
    clock,              \* how many times Space.clock.tick has waited
    pygame_init,        \* FALSE once pygame.quit() has been called
    recorder,           \* the class of the recorder: a Saver or the Env
    cfg,                \* the recorder's configuration
    tracker,            \* Env.tracker
    actions,            \* the recorder's buffer of actions
    observations,       \* the recorder's buffer of observations
    is_save,            \* Saver.is_save
    files,              \* the files written so far, by name
    loop,               \* the interactive loop: running, returned or raised
    now                 \* the hour of datetime.now(), counted from the start

\* the environment
env_vars == <<agent_params, obstacles_params, reward_factory, space, screen,
              bodies, shapes, constraints, agent, obstacles, call, ret>>

\* the window
win_vars == <<acceleration, display, clock, pygame_init>>

\* the recorder
rec_vars == <<recorder, cfg, tracker, actions, observations, is_save, files,
              loop, now>>

vars == <<env_vars, win_vars, rec_vars>>

(***************************************************************************)
(* Bounds of the model.                                                    *)
(***************************************************************************)
MaxGen == 3          \* object generations told apart (ids are reused after GC)
MaxActLen == 5       \* longest 1-D action array tried

(***************************************************************************)
(* Program constants.                                                      *)
(***************************************************************************)
margin == 30                \* AbstractRedAndGreenRewardFactory.margin
AgentMass == 10             \* Agent._setup_shape: shape.mass
CircleMass == 1             \* Circle._setup_shape: shape.mass
AgentPivotMaxForce == 10000 \* Agent._setup_pivot: pivot.max_force
AgentGearMaxForce == 50000  \* Agent._setup_gear: gear.max_force
CirclePivotMaxForce == 1000 \* Space.add_circle: pivot.max_force
CircleGearMaxForce == 5000  \* Space.add_circle: gear.max_force
WallRadius == 10            \* Space.add_segments: pymunk.Segment(..., 10)

(***************************************************************************)
(* Vectors (pymunk.Vec2d) and small helpers.                               *)
(***************************************************************************)
Vec2d(x, y) == <<x, y>>
Zero == Vec2d(0, 0)
VecAdd(a, b) == Vec2d(a[1] + b[1], a[2] + b[2])
VecSub(a, b) == Vec2d(a[1] - b[1], a[2] - b[2])
VecMul(a, k) == Vec2d(a[1] * k, a[2] * k)
Min(a, b) == IF a < b THEN a ELSE b
Max(a, b) == IF a > b THEN a ELSE b
\* integer quotient rounding toward zero
Quot(a, b) == IF a >= 0 THEN a \div b ELSE -((-a) \div b)
Clip(x, lo, hi) == Max(lo, Min(x, hi))

(***************************************************************************)
(* Configuration inputs (types.py: SpaceParameters, CircleParameters).     *)
(***************************************************************************)
SpaceParameters(width, height, fps, color) ==
    [width |-> width, height |-> height, fps |-> fps, color |-> color]

CircleParameters(radius, position, color, velocity) ==
    [radius |-> radius, position |-> position, color |-> color,
     velocity |-> velocity]

\* The arena of the model: a small one whose walls lie on the agent's lattice.
space_params == SpaceParameters(162, 112, 1, "black")

AGENT == CircleParameters(20, Vec2d(81, 31), "blue", 50)
AGENT2 == CircleParameters(20, Vec2d(81, 81), "blue", 50)
RED == CircleParameters(20, Vec2d(31, 81), "red", 0)
GREEN == CircleParameters(20, Vec2d(131, 81), "green", 0)

AgentConfigs == {AGENT, AGENT2}
ObstacleConfigs == {<<>>, <<RED, GREEN>>}

RewardFactories == {"AbstractRewardFactory", "TopRightRedTopLeftGreen",
    "TopLeftGreenTopRightRed", "TopLeftRedBottomLeftGreen",
    "TopLeftGreenBottomLeftRed", "TopLeftRedBottomRightGreen",
    "TopLeftGreenBottomRightRed", "RightTopRedRightBottomGreen",
    "RightTopGreenRightBottomGreen", "TopRightRedBottomLeftGreen",
    "TopRightGreenBottomLeftRed", "BottomLeftRedBottomRightGreen",
    "BottomLeftGreenBottomRightRed"}

(***************************************************************************)
(* Object identities.  A Python object is named by the generation it was   *)
(* constructed in, its role and an index; an identity is free for reuse    *)
(* once nothing refers to the object any more.                             *)
(***************************************************************************)
Id(gen, role, idx) == [gen |-> gen, role |-> role, idx |-> idx]

\* Space.static_body: owned by the pymunk.Space, never listed in Space.bodies
static_body == Id(0, "static_body", 0)

Body(body_type, position) ==
    [body_type |-> body_type, position |-> position, velocity |-> Zero]

\* the world a Space method works on: the Space and the object heaps
\* err: the exception a method raised ("" while none has been raised)
World(sp, scr, bs, shs, cs, err) ==
    [space |-> sp, screen |-> scr, bodies |-> bs, shapes |-> shs,
     constraints |-> cs, err |-> err]

EmptySpace == [bodies |-> {}, shapes |-> {}, constraints |-> {}]

\* f extended (or overridden) by the mapping g
Override(f, g) == g @@ f

\* the function f with every value computed (once)
Table(f) == f @@ <<>>

(***************************************************************************)
(* component.py: Circle and Agent.  Constructing one creates its pymunk    *)
(* objects on the heap; nothing is added to the Space yet.                 *)
(***************************************************************************)
\* Circle.__post_init__: _setup_body, _setup_shape
Circle(params, gen, idx) ==
    [params |-> params,
     body |-> Id(gen, "circle_body", idx),
     shape |-> Id(gen, "circle_shape", idx)]

CircleBodies(c) == c.body :> Body("DYNAMIC", c.params.position)

CircleShapes(c) ==
    c.shape :> [kind |-> "Circle", body |-> c.body, radius |-> c.params.radius,
                mass |-> CircleMass, color |-> c.params.color,
                elasticity |-> 0, a |-> Zero, b |-> Zero]

\* Agent.__post_init__: control body, body, shape, pivot, gear
Agent(params, gen) ==
    [params |-> params,
     velocity |-> params.velocity,
     control_body |-> Id(gen, "agent_control_body", 0),
     body |-> Id(gen, "agent_body", 0),
     shape |-> Id(gen, "agent_shape", 0),
     pivot |-> Id(gen, "agent_pivot", 0),
     gear |-> Id(gen, "agent_gear", 0)]

AgentBodies(a) ==
    (a.control_body :> Body("KINEMATIC", a.params.position))
    @@ (a.body :> Body("DYNAMIC", a.params.position))

AgentShapes(a) ==
    a.shape :> [kind |-> "Circle", body |-> a.body, radius |-> a.params.radius,
                mass |-> AgentMass, color |-> a.params.color, elasticity |-> 0,
                a |-> Zero, b |-> Zero]

PivotJoint(a, b, max_force) ==
    [kind |-> "PivotJoint", a |-> a, b |-> b, max_bias |-> 0,
     max_force |-> max_force]

\* max_bias in tenths: 12 is the agent gear's 1.2
GearJoint(a, b, max_bias, max_force) ==
    [kind |-> "GearJoint", a |-> a, b |-> b, max_bias |-> max_bias,
     max_force |-> max_force]

AgentConstraints(a) ==
    (a.pivot :> PivotJoint(a.control_body, a.body, AgentPivotMaxForce))
    @@ (a.gear :> GearJoint(a.control_body, a.body, 12, AgentGearMaxForce))

(***************************************************************************)
(* pymunk.Space.add / remove.  pymunk asserts that an added object is not  *)
(* in the Space yet and that a removed one is.                             *)
(***************************************************************************)
\* Space.add(*objs): objs is a record of the bodies, shapes and constraints
\* to add, each a mapping from the object's identity to the object
SpaceAdd(w, bs, shs, cs) ==
    IF w.err # "" THEN w
    ELSE IF \/ DOMAIN bs \cap w.space.bodies # {}
            \/ DOMAIN shs \cap w.space.shapes # {}
            \/ DOMAIN cs \cap w.space.constraints # {}
         THEN [w EXCEPT !.err = "AssertionError"]
    ELSE [w EXCEPT !.space = [bodies |-> @.bodies \cup DOMAIN bs,
                              shapes |-> @.shapes \cup DOMAIN shs,
                              constraints |-> @.constraints \cup DOMAIN cs],
                   !.bodies = Override(@, bs),
                   !.shapes = Override(@, shs),
                   !.constraints = Override(@, cs)]

\* Space.remove(*objs) for a set of bodies
RemoveBodies(w, objs) ==
    IF w.err # "" THEN w
    ELSE IF ~(objs \subseteq w.space.bodies)
         THEN [w EXCEPT !.err = "AssertionError"]
    ELSE [w EXCEPT !.space.bodies = @ \ objs]

\* a variant that leaves the constraints in the Space
KeepConstraints(w, objs) == w

RemoveConstraints(w, objs) ==
    IF w.err # "" THEN w
    ELSE IF ~(objs \subseteq w.space.constraints)
         THEN [w EXCEPT !.err = "AssertionError"]
    ELSE [w EXCEPT !.space.constraints = @ \ objs]

RemoveShapes(w, objs) ==
    IF w.err # "" THEN w
    ELSE IF ~(objs \subseteq w.space.shapes)
         THEN [w EXCEPT !.err = "AssertionError"]
    ELSE [w EXCEPT !.space.shapes = @ \ objs]

(***************************************************************************)
(* component.py: Space.                                                    *)
(***************************************************************************)
\* Space.add_circle: the circle, then a pivot and a gear to the static body
add_circle(w, circle) ==
    LET idx == circle.body.idx
        gen == circle.body.gen
        pivot == Id(gen, "circle_pivot", idx)
        gear == Id(gen, "circle_gear", idx)
        w1 == SpaceAdd(w, CircleBodies(circle), CircleShapes(circle), <<>>)
        w2 == SpaceAdd(w1, <<>>, <<>>,
                 pivot :> PivotJoint(static_body, circle.body,
                                     CirclePivotMaxForce))
    IN  SpaceAdd(w2, <<>>, <<>>,
                 gear :> GearJoint(static_body, circle.body, 0,
                                   CircleGearMaxForce))

\* Space.add_agent
add_agent(w, a) ==
    SpaceAdd(w, AgentBodies(a), AgentShapes(a), AgentConstraints(a))

\* a variant that removes the bodies and leaves the shapes and constraints
clear_bodies_only(w) == RemoveBodies(w, w.space.bodies)

\* a variant that removes every object ever made, in the Space or not
clear_everything_made(w) ==
    LET w1 == RemoveBodies(w, DOMAIN w.bodies \ {static_body})
        w2 == RemoveConstraints(w1, DOMAIN w1.constraints)
    IN  RemoveShapes(w2, DOMAIN w2.shapes)

\* Space.clear: remove(*bodies), remove(*constraints), remove(*shapes)
clear(w) ==
    LET w1 == RemoveBodies(w, w.space.bodies)
        w2 == RemoveConstraints(w1, w1.space.constraints)
    IN  RemoveShapes(w2, w2.space.shapes)

\* Space.add_segments: wall(a, b) four times, all on the static body
Wall(gen, k, a, b, color) ==
    Id(gen, "wall", k) :>
        [kind |-> "Segment", body |-> static_body, radius |-> WallRadius,
         mass |-> 0, color |-> color, elasticity |-> 1, a |-> a, b |-> b]

add_segments(w, gen, width, height, color) ==
    LET w1 == SpaceAdd(w, <<>>, Wall(gen, 1, Vec2d(0, 1), Vec2d(width, 1),
                                     color), <<>>)
        w2 == SpaceAdd(w1, <<>>, Wall(gen, 2, Vec2d(1, 0), Vec2d(1, height),
                                      color), <<>>)
        w3 == SpaceAdd(w2, <<>>, Wall(gen, 3, Vec2d(width - 1, 0),
                                      Vec2d(width - 1, height), color), <<>>)
    IN  SpaceAdd(w3, <<>>, Wall(gen, 4, Vec2d(0, height - 1),
                                Vec2d(width, height - 1), color), <<>>)

(***************************************************************************)
(* pymunk.Space.step(dt), dt = 1 / fps.  The solver is a collaborator of   *)
(* the program; the model keeps what the program relies on:                *)
(*  - a kinematic body moves exactly at its assigned velocity;             *)
(*  - a pivot (max_bias 0) pulls the velocity of its dynamic body toward   *)
(*    the velocity of the body it is tied to, by at most                   *)
(*    max_force * dt / mass per step;                                      *)
(*  - circles do not enter walls nor one another: a moving circle pushes   *)
(*    a resting one ahead of it, and is blocked when that one cannot move. *)
(***************************************************************************)
\* the circle shape of the Space attached to body b (if any)
CircleOf(w, b) ==
    {sh \in w.space.shapes :
        w.shapes[sh].kind = "Circle" /\ w.shapes[sh].body = b}

RadiusOf(w, b) ==
    IF CircleOf(w, b) = {} THEN 0
    ELSE w.shapes[CHOOSE sh \in CircleOf(w, b) : TRUE].radius

MassOf(w, b) ==
    IF CircleOf(w, b) = {} THEN 1
    ELSE w.shapes[CHOOSE sh \in CircleOf(w, b) : TRUE].mass

PivotsOf(w, b) ==
    {c \in w.space.constraints :
        w.constraints[c].kind = "PivotJoint" /\ w.constraints[c].b = b}

\* a variant whose pivot has no max_force: the body takes the velocity of
\* the body it is tied to at once
AfterRigidPivot(w, b, fps) ==
    IF PivotsOf(w, b) = {} THEN w.bodies[b].velocity
    ELSE w.bodies[w.constraints[CHOOSE p \in PivotsOf(w, b) : TRUE].a].velocity

\* velocity of b after the pivot's impulse, capped by max_force * dt / mass
AfterPivot(w, b, fps) ==
    LET v == w.bodies[b].velocity
    IN  IF PivotsOf(w, b) = {} THEN v
        ELSE LET c == w.constraints[CHOOSE p \in PivotsOf(w, b) : TRUE]
                 target == w.bodies[c.a].velocity
                 cap == c.max_force \div (MassOf(w, b) * fps)
                 d == VecSub(target, v)
             IN  VecAdd(v, Vec2d(Clip(d[1], -cap, cap), Clip(d[2], -cap, cap)))

Segments(w) == {sh \in w.space.shapes : w.shapes[sh].kind = "Segment"}

\* one coordinate of a circle of radius r kept off the walls across axis i
KeepOff(w, old, new, r, i) ==
    LET across == {sh \in Segments(w) :
                      w.shapes[sh].a[i] = w.shapes[sh].b[i]}
        lows == {w.shapes[sh].a[i] + w.shapes[sh].radius + r :
                    sh \in {s \in across : w.shapes[s].a[i] <= old}}
        highs == {w.shapes[sh].a[i] - w.shapes[sh].radius - r :
                    sh \in {s \in across : w.shapes[s].a[i] > old}}
        lo == IF lows = {} THEN new
              ELSE CHOOSE x \in lows : \A y \in lows : y <= x
        hi == IF highs = {} THEN new
              ELSE CHOOSE x \in highs : \A y \in highs : x <= y
    IN  IF lo > hi THEN old ELSE Clip(new, lo, hi)

InsideWalls(w, old, new, r) ==
    Vec2d(KeepOff(w, old[1], new[1], r, 1), KeepOff(w, old[2], new[2], r, 2))

Overlap(p, r1, q, r2) ==
    (p[1] - q[1]) * (p[1] - q[1]) + (p[2] - q[2]) * (p[2] - q[2])
        < (r1 + r2) * (r1 + r2)

Dynamic(w) == {b \in w.space.bodies : w.bodies[b].body_type = "DYNAMIC"}

\* the displacement of one step at velocity v
Travel(v, fps) == Vec2d(Quot(v[1], fps), Quot(v[2], fps))

\* where a body at p, of radius r and velocity v, would go on its own
Free(w, p, r, v, fps) ==
    [pos |-> p, rad |-> r, v1 |-> v,
     tent |-> InsideWalls(w, p, VecAdd(p, Travel(v, fps)), r)]

Movers(t) == {b \in DOMAIN t : t[b].tent # t[b].pos}

\* the movers that run into the resting body o
Pushers(t, o) ==
    {m \in Movers(t) : Overlap(t[m].tent, t[m].rad, t[o].pos, t[o].rad)}

\* the resting body o pushed by the mover m as far as m travels
Shove(w, t, o, m) ==
    [by |-> Pushers(t, o), pusher |-> m,
     goal |-> InsideWalls(w, t[o].pos,
                          VecAdd(t[o].pos, VecSub(t[m].tent, t[m].pos)),
                          t[o].rad)]

Pushed(w, t) ==
    Table([o \in {x \in DOMAIN t \ Movers(t) : Pushers(t, x) # {}} |->
              Shove(w, t, o, CHOOSE m \in Pushers(t, o) : TRUE)])

\* a pushed body that has nowhere to go
Stuck(t, p, o) ==
    \/ Overlap(p[o].goal, t[o].rad, t[p[o].pusher].tent, t[p[o].pusher].rad)
    \/ \E x \in DOMAIN t \ {o, p[o].pusher} :
          Overlap(p[o].goal, t[o].rad, t[x].pos, t[x].rad)

Blocked(t, p, m) ==
    \/ \E o \in DOMAIN p : m \in p[o].by /\ Stuck(t, p, o)
    \/ \E x \in Movers(t) \ {m} :
          Overlap(t[m].tent, t[m].rad, t[x].tent, t[x].rad)

Final(t, p, b) ==
    IF b \in Movers(t)
    THEN (IF Blocked(t, p, b) THEN t[b].pos ELSE t[b].tent)
    ELSE IF b \in DOMAIN p
         THEN (IF Stuck(t, p, b) THEN t[b].pos ELSE p[b].goal)
    ELSE t[b].pos

\* a contact replaces the velocity by the one actually travelled
Land(body, f, final, fps) ==
    [body EXCEPT !.position = final,
                 !.velocity = IF final = VecAdd(f.pos, Travel(f.v1, fps))
                              THEN f.v1
                              ELSE VecMul(VecSub(final, f.pos), fps)]

Settle(w, fps, t, p) ==
    [w EXCEPT !.bodies =
        Table([b \in DOMAIN w.bodies |->
            IF b \notin w.space.bodies THEN w.bodies[b]
            ELSE IF w.bodies[b].body_type = "KINEMATIC"
                 THEN [w.bodies[b] EXCEPT
                          !.position = VecAdd(@, Travel(w.bodies[b].velocity,
                                                        fps))]
            ELSE IF b \in DOMAIN t
                 THEN Land(w.bodies[b], t[b], Final(t, p, b), fps)
            ELSE w.bodies[b]])]

Contact(w, fps, t) == Settle(w, fps, t, Pushed(w, t))

SolverStep(w, fps) ==
    Contact(w, fps,
            Table([b \in Dynamic(w) |->
                      Free(w, w.bodies[b].position, RadiusOf(w, b),
                           AfterPivot(w, b, fps), fps)]))

\* what debug_draw rasterizes: every shape of the Space where its body is
Drawn(w) ==
    {[kind |-> w.shapes[sh].kind, color |-> w.shapes[sh].color,
      radius |-> w.shapes[sh].radius,
      at |-> VecAdd(w.bodies[w.shapes[sh].body].position, w.shapes[sh].a),
      to |-> VecAdd(w.bodies[w.shapes[sh].body].position, w.shapes[sh].b)] :
        sh \in w.space.shapes}

\* a variant that advances the solver first and rasterizes what it leaves
render_late(w, sp) ==
    IF w.err # "" THEN w
    ELSE [SolverStep(w, sp.fps) EXCEPT
             !.screen = [dims |-> <<sp.width, sp.height, 3>>,
                         fill |-> sp.color,
                         drawn |-> Drawn(SolverStep(w, sp.fps))]]

\* Space.render: fill, debug_draw, flip, then step(1 / fps), then clock.tick
render(w, sp) ==
    IF w.err # "" THEN w
    ELSE LET filled == [w EXCEPT !.screen = [dims |-> <<sp.width, sp.height, 3>>,
                                             fill |-> sp.color, drawn |-> {}]]
             drawn == [filled EXCEPT !.screen.drawn = Drawn(w)]
         IN  SolverStep(drawn, sp.fps)

(***************************************************************************)
(* reward.py.  A result is the value returned or the exception raised.     *)
(***************************************************************************)
Return(v) == [exc |-> "", value |-> v]
Raise(e) == [exc |-> e, value |-> 0]

circle_is_left(c, sp) == c.position[1] < c.radius + margin

circle_is_right(c, sp) == c.position[1] > sp.width - (c.radius + margin)

\* a variant with the edge of the band included
circle_is_top_or_on(c, sp) == c.position[2] <= c.radius + margin

circle_is_top(c, sp) == c.position[2] < c.radius + margin

circle_is_bottom(c, sp) == c.position[2] > sp.height - (c.radius + margin)

circle_is_top_left(c, sp) == circle_is_top(c, sp) /\ circle_is_left(c, sp)

circle_is_top_right(c, sp) == circle_is_top(c, sp) /\ circle_is_right(c, sp)

circle_is_bottom_left(c, sp) ==
    circle_is_bottom(c, sp) /\ circle_is_left(c, sp)

circle_is_bottom_right(c, sp) ==
    circle_is_bottom(c, sp) /\ circle_is_right(c, sp)

\* a variant that keeps the last obstacle of that colour
LastOfColor(obs, color) ==
    LET hits == {i \in DOMAIN obs : obs[i].color = color}
    IN  IF hits = {} THEN 0 ELSE CHOOSE i \in hits : \A j \in hits : j <= i

\* for obstacle in info["obstacles"]: the first one of that colour
FirstOfColor(obs, color) ==
    LET hits == {i \in DOMAIN obs : obs[i].color = color}
    IN  IF hits = {} THEN 0 ELSE CHOOSE i \in hits : \A j \in hits : i <= j

\* get_red_circle: the first red obstacle, else info["obstacles"][0]
get_red_circle(info) ==
    IF FirstOfColor(info.obstacles, "red") # 0
    THEN Return(info.obstacles[FirstOfColor(info.obstacles, "red")])
    ELSE IF Len(info.obstacles) = 0 THEN Raise("IndexError")
    ELSE Return(info.obstacles[1])

get_green_circle(info) ==
    IF FirstOfColor(info.obstacles, "green") # 0
    THEN Return(info.obstacles[FirstOfColor(info.obstacles, "green")])
    ELSE IF Len(info.obstacles) = 0 THEN Raise("IndexError")
    ELSE Return(info.obstacles[1])

\* cls.circle_is_<corner>(circle_parameters, space_parameters)
circle_is(corner, c, sp) ==
    CASE corner = "top_left" -> circle_is_top_left(c, sp)
      [] corner = "top_right" -> circle_is_top_right(c, sp)
      [] corner = "bottom_left" -> circle_is_bottom_left(c, sp)
      [] corner = "bottom_right" -> circle_is_bottom_right(c, sp)

\* the body shared by the get_reward of the red and green factories:
\* reward = 0.0, then += 0.5 for each of the two conditions that holds
Earn(info, red_corner, green_corner) ==
    LET red_circle == get_red_circle(info)
        green_circle == get_green_circle(info)
    IN  IF red_circle.exc # "" THEN Raise(red_circle.exc)
        ELSE IF green_circle.exc # "" THEN Raise(green_circle.exc)
        ELSE LET r0 == 0
                 r1 == IF circle_is(red_corner, red_circle.value, info.space)
                       THEN r0 + 1 ELSE r0
                 r2 == IF circle_is(green_corner, green_circle.value,
                                    info.space)
                       THEN r1 + 1 ELSE r1
             IN  Return(r2)

AbstractRewardFactory(info) == Return(2)

TopRightRedTopLeftGreen(info) ==
    Earn(info, "top_left", "top_right")

TopLeftGreenTopRightRed(info) ==
    Earn(info, "top_right", "top_left")

TopLeftRedBottomLeftGreen(info) ==
    Earn(info, "top_left", "bottom_left")

TopLeftGreenBottomLeftRed(info) ==
    Earn(info, "bottom_left", "top_left")

TopLeftRedBottomRightGreen(info) ==
    Earn(info, "top_left", "bottom_right")

TopLeftGreenBottomRightRed(info) ==
    Earn(info, "bottom_right", "top_left")

RightTopRedRightBottomGreen(info) ==
    Earn(info, "top_right", "bottom_right")

RightTopGreenRightBottomGreen(info) ==
    Earn(info, "bottom_right", "top_right")

TopRightRedBottomLeftGreen(info) ==
    Earn(info, "top_right", "bottom_left")

TopRightGreenBottomLeftRed(info) ==
    Earn(info, "bottom_left", "top_right")

BottomLeftRedBottomRightGreen(info) ==
    Earn(info, "bottom_left", "bottom_right")

BottomLeftGreenBottomRightRed(info) ==
    Earn(info, "bottom_right", "bottom_left")

\* cls.get_reward(info), by the class the environment was given
get_reward(cls, info) ==
    CASE cls = "AbstractRewardFactory" -> AbstractRewardFactory(info)
      [] cls = "TopRightRedTopLeftGreen" -> TopRightRedTopLeftGreen(info)
      [] cls = "TopLeftGreenTopRightRed" -> TopLeftGreenTopRightRed(info)
      [] cls = "TopLeftRedBottomLeftGreen" -> TopLeftRedBottomLeftGreen(info)
      [] cls = "TopLeftGreenBottomLeftRed" -> TopLeftGreenBottomLeftRed(info)
      [] cls = "TopLeftRedBottomRightGreen" -> TopLeftRedBottomRightGreen(info)
      [] cls = "TopLeftGreenBottomRightRed" -> TopLeftGreenBottomRightRed(info)
      [] cls = "RightTopRedRightBottomGreen" ->
            RightTopRedRightBottomGreen(info)
      [] cls = "RightTopGreenRightBottomGreen" ->
            RightTopGreenRightBottomGreen(info)
      [] cls = "TopRightRedBottomLeftGreen" -> TopRightRedBottomLeftGreen(info)
      [] cls = "TopRightGreenBottomLeftRed" -> TopRightGreenBottomLeftRed(info)
      [] cls = "BottomLeftRedBottomRightGreen" ->
            BottomLeftRedBottomRightGreen(info)
      [] cls = "BottomLeftGreenBottomRightRed" ->
            BottomLeftGreenBottomRightRed(info)

(***************************************************************************)
(* Actions as numpy arrays: ndim is the number of axes, rows the data      *)
(* (a 0-d or 1-d array is held as one row).                                *)
(***************************************************************************)
Array(ndim, rows) == [ndim |-> ndim, rows |-> rows]

\* a variant with the rows of up and down exchanged
directions_flipped == <<Vec2d(0, 1), Vec2d(0, -1), Vec2d(-1, 0), Vec2d(1, 0)>>

\* core.py, Push2D.step: the direction table (up, down, left, right)
directions == <<Vec2d(0, -1), Vec2d(0, 1), Vec2d(-1, 0), Vec2d(1, 0)>>

RECURSIVE DotRow(_, _, _, _)
\* sum over i <= n of row[i] * table[i][j]
DotRow(row, table, j, n) ==
    IF n = 0 THEN 0 ELSE DotRow(row, table, j, n - 1) + row[n] * table[n][j]

\* a variant that resizes the action to the table's length (as np.resize to
\* four items, padding with 0) before the product
np_dot_resized(action, table) ==
    Return(Array(1, <<Vec2d(
        DotRow([i \in 1..Len(table) |->
                   IF i <= Len(action.rows[1]) THEN action.rows[1][i] ELSE 0],
               table, 1, Len(table)),
        DotRow([i \in 1..Len(table) |->
                   IF i <= Len(action.rows[1]) THEN action.rows[1][i] ELSE 0],
               table, 2, Len(table)))>>))

\* np.dot(action, directions) with directions of shape (4, 2): a 0-d action
\* scales the table, a 1-d or 2-d one needs a last axis of length 4
np_dot(action, table) ==
    IF action.ndim = 0
    THEN Return(Array(2, [i \in 1..Len(table) |->
                            VecMul(table[i], action.rows[1][1])]))
    ELSE IF \E r \in DOMAIN action.rows : Len(action.rows[r]) # Len(table)
         THEN Raise("ValueError")
    ELSE Return(Array(action.ndim,
                      [r \in DOMAIN action.rows |->
                          Vec2d(DotRow(action.rows[r], table, 1, Len(table)),
                                DotRow(action.rows[r], table, 2, Len(table)))]))

\* Vec2d(*_action) * velocity assigned to Body.velocity: unpacking takes the
\* items of the first axis, Vec2d takes exactly two of them, and the body
\* accepts them only when they are numbers
Unpack(arr) ==
    LET items == IF arr.ndim = 1 THEN Len(arr.rows[1]) ELSE Len(arr.rows)
    IN  IF arr.ndim = 0 \/ items # 2 THEN Raise("TypeError")
        ELSE IF arr.ndim # 1 THEN Raise("TypeError")
        ELSE Return(Vec2d(arr.rows[1][1], arr.rows[1][2]))

(***************************************************************************)
(* core.py: Push2D.                                                        *)
(***************************************************************************)
\* Push2D._get_observation: array3d(screen) is indexed [x][y]; the transpose
\* (1, 0, 2) makes it height-major, indexed [y][x]
Transpose(p) == Vec2d(p[2], p[1])

get_observation(w) ==
    [dims |-> <<w.screen.dims[2], w.screen.dims[1], w.screen.dims[3]>>,
     fill |-> w.screen.fill,
     drawn |-> {[d EXCEPT !.at = Transpose(@), !.to = Transpose(@)] :
                   d \in w.screen.drawn}]

\* Push2D._get_info
get_info(w, sp, ag, ap, obs) ==
    [space |-> SpaceParameters(sp.width, sp.height, sp.fps, sp.color),
     agent |-> CircleParameters(ag.params.radius, w.bodies[ag.body].position,
                                ag.params.color, ap.velocity),
     obstacles |-> [i \in DOMAIN obs |->
                       CircleParameters(obs[i].params.radius,
                                        w.bodies[obs[i].body].position,
                                        obs[i].params.color,
                                        w.bodies[obs[i].body].velocity)]]

\* the generation of the objects the next reset constructs: one that nothing
\* in the Space and nothing the environment still refers to belongs to
Gens(w, ag, obs) ==
    {x.gen : x \in w.space.bodies \cup w.space.shapes \cup w.space.constraints}
    \cup {ag[i].body.gen : i \in DOMAIN ag}
    \cup {obs[i].body.gen : i \in DOMAIN obs}

FreshGen(w, ag, obs) ==
    LET free == (0..MaxGen) \ Gens(w, ag, obs)
    IN  IF free = {} THEN MaxGen
        ELSE CHOOSE g \in free : \A h \in free : g <= h

\* objects nothing refers to any more are collected
Collect(w, ag, obs) ==
    LET bs == w.space.bodies \cup {static_body}
              \cup {ag[i].body : i \in DOMAIN ag}
              \cup {ag[i].control_body : i \in DOMAIN ag}
              \cup {obs[i].body : i \in DOMAIN obs}
        shs == w.space.shapes \cup {ag[i].shape : i \in DOMAIN ag}
               \cup {obs[i].shape : i \in DOMAIN obs}
        cs == w.space.constraints \cup {ag[i].pivot : i \in DOMAIN ag}
              \cup {ag[i].gear : i \in DOMAIN ag}
    IN  [w EXCEPT !.bodies = Table([b \in bs \cap DOMAIN w.bodies |->
                                      w.bodies[b]]),
                  !.shapes = Table([x \in shs \cap DOMAIN w.shapes |->
                                      w.shapes[x]]),
                  !.constraints = Table([c \in cs \cap DOMAIN w.constraints |->
                                      w.constraints[c]])]

RECURSIVE AddObstacles(_, _, _)
\* for obstacle_params in self.obstacles_params: ... self.space.add_circle
AddObstacles(w, circles, n) ==
    IF n = 0 THEN w
    ELSE add_circle(AddObstacles(w, circles, n - 1), circles[n])

\* Push2D.reset after the options are merged: clear the Space, build the
\* agent, the obstacles and the walls, render once, return (observation, info)
reset(w, old_agent, old_obstacles, ap, ops, sp) ==
    LET w1 == clear(w)
        gen == FreshGen(w1, old_agent, old_obstacles)
        a == Agent(ap, gen)
        w2 == add_agent(w1, a)
        circles == [i \in DOMAIN ops |-> Circle(ops[i], gen, i)]
        w3 == AddObstacles(w2, circles, Len(circles))
        w4 == add_segments(w3, gen, sp.width, sp.height, sp.color)
        w5 == render(w4, sp)
        w6 == Collect(w5, <<a>>, circles)
    IN  [world |-> w6, agent |-> a, obstacles |-> circles,
         ret |-> IF w6.err # "" THEN [kind |-> "raise", exc |-> w6.err]
                 ELSE [kind |-> "reset",
                       observation |-> get_observation(w6),
                       info |-> get_info(w6, sp, a, ap, circles)]]

\* a variant that ends the episode at every step
terminated_always == <<TRUE, FALSE>>

\* Push2D.step: terminated, truncated = False, False
terminated_truncated == <<FALSE, FALSE>>

\* Push2D.step: decode, command the control body, render, observe, reward
step(w, action, ag, ap, obs, cls, sp) ==
    LET dot == np_dot(action, directions)
        vec == IF dot.exc # "" THEN dot ELSE Unpack(dot.value)
    IN  IF vec.exc # ""
        THEN [world |-> w, ret |-> [kind |-> "raise", exc |-> vec.exc]]
        ELSE LET w1 == [w EXCEPT !.bodies[ag.control_body].velocity =
                                      VecMul(vec.value, ap.velocity)]
                 w2 == render(w1, sp)
                 observation == get_observation(w2)
                 info == get_info(w2, sp, ag, ap, obs)
                 reward == get_reward(cls, info)
             IN  [world |-> w2,
                  ret |-> IF reward.exc # ""
                          THEN [kind |-> "raise", exc |-> reward.exc]
                          ELSE [kind |-> "step",
                                observation |-> observation,
                                reward |-> reward.value,
                                terminated |-> terminated_truncated[1],
                                truncated |-> terminated_truncated[2],
                                info |-> info]]

(***************************************************************************)
(* The inputs tried.                                                       *)
(***************************************************************************)
Flags(n) == [1..n -> {0, 1}]

\* the arrays of the action space MultiDiscrete([2, 2, 2, 2])
ValidActions == {Array(1, <<f>>) : f \in Flags(4)}

\* arrays of another shape: (2,), (MaxActLen,), (), (1, 4) and (2, 4)
MalformedActions ==
    {Array(1, <<[i \in 1..n |-> 1]>>) : n \in {2, MaxActLen}}
    \cup {Array(0, <<<<1>>>>)}
    \cup {Array(2, <<<<0, 0, 0, 1>>>>),
          Array(2, <<<<0, 0, 0, 1>>, <<0, 1, 0, 0>>>>)}

Options ==
    [agent_params : {<<>>} \cup {<<p>> : p \in AgentConfigs},
     obstacles_params : {<<>>} \cup {<<p>> : p \in ObstacleConfigs}]

TheWorld == World(space, screen, bodies, shapes, constraints, "")

\* the control body has no shape, so no wall stops it: the model follows it
\* while it stays over the arena
DriftOk(w, ag, sp) ==
    LET p == w.bodies[ag.control_body].position
    IN  0 <= p[1] /\ p[1] <= sp.width /\ 0 <= p[2] /\ p[2] <= sp.height

SetWorld(w) ==
    /\ space' = w.space
    /\ screen' = w.screen
    /\ bodies' = w.bodies
    /\ shapes' = w.shapes
    /\ constraints' = w.constraints

\* the window of an environment just constructed; a specification that does
\* not follow the window leaves it so
NewWindow ==
    /\ acceleration = FALSE
    /\ display = {}
    /\ clock = 0
    /\ pygame_init = TRUE

\* no recorder wraps the environment
NoRecorder ==
    /\ recorder = "none"
    /\ cfg = <<>>
    /\ tracker = <<>>
    /\ actions = <<>>
    /\ observations = <<>>
    /\ is_save = FALSE
    /\ files = <<>>
    /\ loop = "none"
    /\ now = 0

(***************************************************************************)
(* The state machine.                                                      *)
(***************************************************************************)
BlankScreen(sp) ==
    [dims |-> <<sp.width, sp.height, 3>>, fill |-> "black", drawn |-> {}]

\* Push2D.__init__: store the parameters, make the Space, reset(seed=42)
Constructed(ap, ops, cls) ==
    \E r \in {reset(World(EmptySpace, BlankScreen(space_params),
                          static_body :> Body("STATIC", Zero), <<>>, <<>>, ""),
                    <<>>, <<>>, ap, ops, space_params)} :
        /\ agent_params = ap
        /\ obstacles_params = ops
        /\ reward_factory = cls
        /\ space = r.world.space
        /\ screen = r.world.screen
        /\ bodies = r.world.bodies
        /\ shapes = r.world.shapes
        /\ constraints = r.world.constraints
        /\ agent = r.agent
        /\ obstacles = r.obstacles

Init ==
    \E ops \in ObstacleConfigs,
       cls \in {"AbstractRewardFactory", "TopLeftRedBottomLeftGreen"} :
        /\ Constructed(AGENT, ops, cls)
        /\ call = [op |-> "__init__"]
        /\ ret = [kind |-> "none"]
        /\ NewWindow
        /\ NoRecorder

\* a variant that rebuilds from the options it is given and stores nothing:
\* the next reset() starts from the constructor's parameters again
ResetForgetting(options) ==
    \E r \in {reset(TheWorld, <<agent>>, obstacles,
                    IF options.agent_params = <<>> THEN agent_params
                    ELSE options.agent_params[1],
                    IF options.obstacles_params = <<>> THEN obstacles_params
                    ELSE options.obstacles_params[1],
                    space_params)} :
        /\ SetWorld(r.world)
        /\ agent' = r.agent
        /\ obstacles' = r.obstacles
        /\ call' = [op |-> "reset", options |-> options]
        /\ ret' = r.ret
        /\ UNCHANGED <<agent_params, obstacles_params, reward_factory,
                       win_vars, rec_vars>>

\* env.reset(options=...)
Reset(options) ==
    LET ap == IF options.agent_params = <<>> THEN agent_params
              ELSE options.agent_params[1]
        ops == IF options.obstacles_params = <<>> THEN obstacles_params
               ELSE options.obstacles_params[1]
    IN  \E r \in {reset(TheWorld, <<agent>>, obstacles, ap, ops, space_params)} :
        /\ agent_params' = ap
        /\ obstacles_params' = ops
        /\ SetWorld(r.world)
        /\ agent' = r.agent
        /\ obstacles' = r.obstacles
        /\ call' = [op |-> "reset", options |-> options]
        /\ ret' = r.ret
        /\ UNCHANGED <<reward_factory, win_vars, rec_vars>>

\* env.step(action); the model steps an environment whose Space is populated
Step(action) ==
    \E r \in {step(TheWorld, action, agent, agent_params, obstacles,
                  reward_factory, space_params)} :
        /\ agent.body \in space.bodies
        /\ DriftOk(r.world, agent, space_params)
        /\ SetWorld(r.world)
        /\ call' = [op |-> "step", action |-> action]
        /\ ret' = r.ret
        /\ UNCHANGED <<agent_params, obstacles_params, reward_factory, agent,
                       obstacles, win_vars, rec_vars>>

\* env.space.clear()
Clear ==
    \E w \in {Collect(clear(TheWorld), <<agent>>, obstacles)} :
        /\ SetWorld(w)
        /\ call' = [op |-> "clear"]
        /\ ret' = IF w.err # "" THEN [kind |-> "raise", exc |-> w.err]
                  ELSE [kind |-> "clear"]
        /\ UNCHANGED <<agent_params, obstacles_params, reward_factory, agent,
                       obstacles, win_vars, rec_vars>>

\* env.render()
Render ==
    \E w \in {render(TheWorld, space_params)} :
        /\ DriftOk(w, agent, space_params)
        /\ SetWorld(w)
        /\ call' = [op |-> "render"]
        /\ ret' = IF w.err # "" THEN [kind |-> "raise", exc |-> w.err]
                  ELSE [kind |-> "render"]
        /\ UNCHANGED <<agent_params, obstacles_params, reward_factory, agent,
                       obstacles, win_vars, rec_vars>>

Next ==
    \/ \E options \in Options : Reset(options)
    \/ \E action \in ValidActions \cup MalformedActions : Step(action)
    \/ Clear
    \/ Render

Spec == Init /\ [][Next]_vars

(***************************************************************************)
(* The reward factories called on their own: get_reward and the position   *)
(* predicates are class methods, pure functions of the info they are       *)
(* given.  An initial state holds the call, the one action applies it.     *)
(***************************************************************************)
MaxObstacles == 2  \* obstacles in an info handed to get_reward

\* push2d/variants.py, RedAndGreen.SPACE
Arena == SpaceParameters(300, 225, 60, "black")

Radii == {20, 30}

Near(t) == {t - 1, t, t + 1}

\* the coordinates next to the edges of the four bands, along an axis of
\* the given extent
Edges(extent) ==
    UNION {Near(r + margin) \cup Near(extent - r - margin) : r \in Radii}

EdgeCircles(sp) ==
    {CircleParameters(r, Vec2d(x, y), "red", 0) :
        r \in Radii, x \in Edges(sp.width), y \in Edges(sp.height)}

\* circles well inside a corner, or in none
Spots == {Vec2d(x, y) : x \in {10, 290}, y \in {10, 110, 190}}

SpotCircles ==
    {CircleParameters(30, p, c, 0) : p \in Spots, c \in {"red", "green", "gray"}}

Infos ==
    {[space |-> Arena,
      agent |-> CircleParameters(20, Vec2d(150, 110), "blue", 110),
      obstacles |-> obs] :
        obs \in UNION {[1..n -> SpotCircles] : n \in 0..MaxObstacles}}

Calls ==
    {[op |-> "get_reward", info |-> i] : i \in Infos}
    \cup {[op |-> "circle_is", circle_parameters |-> c, space_parameters |-> sp] :
            c \in EdgeCircles(Arena), sp \in {Arena}}

InitFn ==
    /\ \E cls \in RewardFactories : Constructed(AGENT, <<>>, cls)
    /\ call \in Calls
    /\ ret = [kind |-> "none"]
    /\ NewWindow
    /\ NoRecorder

\* reward_factory.get_reward(info)
GetReward ==
    /\ call.op = "get_reward"
    /\ ret.kind = "none"
    /\ \E r \in {get_reward(reward_factory, call.info)} :
          ret' = [kind |-> "get_reward", exc |-> r.exc, value |-> r.value]
    /\ UNCHANGED <<agent_params, obstacles_params, reward_factory, space,
                   screen, bodies, shapes, constraints, agent, obstacles, call,
                   win_vars, rec_vars>>

\* the eight position predicates of AbstractRedAndGreenRewardFactory
CircleIs ==
    /\ call.op = "circle_is"
    /\ ret.kind = "none"
    /\ reward_factory # "AbstractRewardFactory"
    /\ ret' = [kind |-> "circle_is",
               left |-> circle_is_left(call.circle_parameters,
                                       call.space_parameters),
               right |-> circle_is_right(call.circle_parameters,
                                         call.space_parameters),
               top |-> circle_is_top(call.circle_parameters,
                                     call.space_parameters),
               bottom |-> circle_is_bottom(call.circle_parameters,
                                           call.space_parameters),
               top_left |-> circle_is_top_left(call.circle_parameters,
                                               call.space_parameters),
               top_right |-> circle_is_top_right(call.circle_parameters,
                                                 call.space_parameters),
               bottom_left |-> circle_is_bottom_left(call.circle_parameters,
                                                     call.space_parameters),
               bottom_right |-> circle_is_bottom_right(call.circle_parameters,
                                                       call.space_parameters)]
    /\ UNCHANGED <<agent_params, obstacles_params, reward_factory, space,
                   screen, bodies, shapes, constraints, agent, obstacles, call,
                   win_vars, rec_vars>>

NextFn == GetReward \/ CircleIs

SpecFn == InitFn /\ [][NextFn]_vars

(***************************************************************************)
(* src/push_2d/space.py and src/push_2d/environment.py: the environment    *)
(* whose render is switched by an acceleration flag.  A render works on    *)
(* the world and on the window: the frame shown, the clock, and whether    *)
(* pygame is still initialised.                                            *)
(***************************************************************************)
MaxTicks == 2  \* waits of the clock the model follows

Windowed(w, d, c, on) == [world |-> w, display |-> d, clock |-> c, init |-> on]

\* screen.fill(color), debug_draw(draw_options); the display Surface is gone
\* once pygame has quit and fill raises pygame.error
Rasterize(e, sp) ==
    IF e.world.err # "" THEN e
    ELSE IF ~e.init THEN [e EXCEPT !.world.err = "pygame.error"]
    ELSE [e EXCEPT !.world.screen = [dims |-> <<sp.width, sp.height, 3>>,
                                     fill |-> sp.color,
                                     drawn |-> Drawn(e.world)]]

\* pygame.display.flip()
Flip(e) ==
    IF e.world.err # "" THEN e ELSE [e EXCEPT !.display = e.world.screen]

\* self.step(1 / self.fps)
Advance(e, sp) ==
    IF e.world.err # "" THEN e
    ELSE [e EXCEPT !.world = SolverStep(e.world, sp.fps)]

\* self.clock.tick(self.fps)
ClockTick(e) ==
    IF e.world.err # "" THEN e ELSE [e EXCEPT !.clock = @ + 1]

\* a variant that advances the solver before it rasterizes
space_render_late(e, sp) == ClockTick(Flip(Rasterize(Advance(e, sp), sp)))

\* Space.render
space_render(e, sp) == ClockTick(Advance(Flip(Rasterize(e, sp)), sp))

\* a variant that rasterizes and does not advance the solver
accelerated_render_still(e, sp) == Rasterize(e, sp)

\* Space.accelerated_render
accelerated_render(e, sp) == Advance(Rasterize(e, sp), sp)

\* Push2D.render
environment_render(e, sp, acc) ==
    IF acc THEN accelerated_render(e, sp) ELSE space_render(e, sp)

\* Push2D._get_info: the agent and the components themselves, as they are
environment_get_info(w, ag, components) ==
    [agent |-> [radius |-> ag.params.radius,
                color |-> ag.params.color,
                velocity |-> ag.velocity,
                body |-> w.bodies[ag.body],
                control_body |-> w.bodies[ag.control_body]],
     obstacles |-> [i \in DOMAIN components |->
                       [radius |-> components[i].params.radius,
                        color |-> components[i].params.color,
                        body |-> w.bodies[components[i].body]]]]

\* Push2D.reset: clear the Space, reset and add the agent and each
\* component, render once, return (observation, info)
environment_reset(e, old_agent, old_components, ap, cps, sp, acc) ==
    LET w1 == clear(e.world)
        gen == FreshGen(w1, old_agent, old_components)
        a == Agent(ap, gen)
        circles == [i \in DOMAIN cps |-> Circle(cps[i], gen, i)]
        w3 == AddObstacles(add_agent(w1, a), circles, Len(circles))
        e4 == environment_render([e EXCEPT !.world = w3], sp, acc)
        w5 == Collect(e4.world, <<a>>, circles)
    IN  [env |-> [e4 EXCEPT !.world = w5], agent |-> a, obstacles |-> circles,
         ret |-> IF w5.err # "" THEN [kind |-> "raise", exc |-> w5.err]
                 ELSE [kind |-> "reset",
                       observation |-> get_observation(w5),
                       info |-> environment_get_info(w5, a, circles)]]

\* Push2D.step: decode, command the control body, render, observe, reward
environment_step(e, action, ag, components, sp, acc) ==
    LET dot == np_dot(action, directions)
        vec == IF dot.exc # "" THEN dot ELSE Unpack(dot.value)
    IN  IF vec.exc # ""
        THEN [env |-> e, ret |-> [kind |-> "raise", exc |-> vec.exc]]
        ELSE LET e1 == [e EXCEPT !.world.bodies[ag.control_body].velocity =
                                      VecMul(vec.value, ag.velocity)]
                 e2 == environment_render(e1, sp, acc)
                 info == environment_get_info(e2.world, ag, components)
             IN  [env |-> e2,
                  ret |-> IF e2.world.err # ""
                          THEN [kind |-> "raise", exc |-> e2.world.err]
                          ELSE [kind |-> "step",
                                observation |-> get_observation(e2.world),
                                reward |-> AbstractRewardFactory(info).value,
                                terminated |-> FALSE,
                                truncated |-> FALSE,
                                info |-> info]]

TheEnv == Windowed(TheWorld, display, clock, pygame_init)

SetEnv(e) ==
    /\ SetWorld(e.world)
    /\ display' = e.display
    /\ clock' = e.clock
    /\ pygame_init' = e.init

ComponentConfigs == {<<>>, <<RED>>}

\* Push2D.__init__: _acceleration = False, reset(seed=42)
InitAcc ==
    \E cps \in ComponentConfigs :
    \E r \in {environment_reset(
                 Windowed(World(EmptySpace, BlankScreen(space_params),
                                static_body :> Body("STATIC", Zero), <<>>,
                                <<>>, ""),
                          {}, 0, TRUE),
                 <<>>, <<>>, AGENT, cps, space_params, FALSE)} :
        /\ agent_params = AGENT
        /\ obstacles_params = cps
        /\ reward_factory = "AbstractRewardFactory"
        /\ space = r.env.world.space
        /\ screen = r.env.world.screen
        /\ bodies = r.env.world.bodies
        /\ shapes = r.env.world.shapes
        /\ constraints = r.env.world.constraints
        /\ agent = r.agent
        /\ obstacles = r.obstacles
        /\ call = [op |-> "__init__"]
        /\ ret = [kind |-> "none"]
        /\ acceleration = FALSE
        /\ display = r.env.display
        /\ clock = r.env.clock
        /\ pygame_init = TRUE
        /\ NoRecorder

\* env.acceleration = flag
SetAcceleration(flag) ==
    /\ acceleration # flag
    /\ acceleration' = flag
    /\ call' = [op |-> "acceleration", flag |-> flag]
    /\ ret' = [kind |-> "acceleration"]
    /\ UNCHANGED <<agent_params, obstacles_params, reward_factory, space,
                   screen, bodies, shapes, constraints, agent, obstacles,
                   display, clock, pygame_init, rec_vars>>

\* env.reset()
AccReset ==
    \E r \in {environment_reset(TheEnv, <<agent>>, obstacles, agent_params,
                                obstacles_params, space_params,
                                acceleration)} :
        /\ r.env.clock <= MaxTicks
        /\ SetEnv(r.env)
        /\ agent' = r.agent
        /\ obstacles' = r.obstacles
        /\ call' = [op |-> "reset"]
        /\ ret' = r.ret
        /\ UNCHANGED <<agent_params, obstacles_params, reward_factory,
                       acceleration, rec_vars>>

\* env.step(action)
AccStep(action) ==
    \E r \in {environment_step(TheEnv, action, agent, obstacles, space_params,
                               acceleration)} :
        /\ r.env.clock <= MaxTicks
        /\ DriftOk(r.env.world, agent, space_params)
        /\ SetEnv(r.env)
        /\ call' = [op |-> "step", action |-> action]
        /\ ret' = r.ret
        /\ UNCHANGED <<agent_params, obstacles_params, reward_factory, agent,
                       obstacles, acceleration, rec_vars>>

NextAcc ==
    \/ \E flag \in BOOLEAN : SetAcceleration(flag)
    \/ AccReset
    \/ \E action \in ValidActions : AccStep(action)

SpecAcc == InitAcc /\ [][NextAcc]_vars

(***************************************************************************)
(* The recorders: Saver of push_2d/wrapper.py (its loop is follow), Saver  *)
(* of src/push_2d/wrapper.py (its loop is `while True: saver.listen()`)    *)
(* and Env of push2d-simulator/env.py (its loop is follow).  A Saver wraps *)
(* a Push2D, which the model takes from environment.py with the flag       *)
(* clear; the Env owns a Space with a tracker circle.                      *)
(*                                                                         *)
(* A recorder method works on a record r: the environment and its window   *)
(* (env), the buffers, the files, the action and the observation of the    *)
(* pass, the calls made so far (made), the exception raised (exc) and      *)
(* whether the loop has returned (done).                                   *)
(***************************************************************************)
save_length == 2   \* Saver.save_length, Saver.seq_len, cfg.save.length
MaxCaptures == 3   \* captures in the data directories the model follows
MaxHours == 1      \* hours the clock of Env.save passes

Recorders == {"Saver.follow", "Saver.listen", "Env.follow"}

\* <dir>/<stem>_<num>.npy
Path(dir, stem, num) == [dir |-> dir, stem |-> stem, num |-> num]

ActionStem(kind) ==
    IF kind = "Saver.listen" THEN "action" ELSE "raw_action"

ObservationStem(kind) ==
    CASE kind = "Saver.listen" -> "observation"
      [] kind = "Saver.follow" -> "raw_obs"
      [] OTHER -> "raw_observation"

\* Saver.save: dirname = Path("data"); Env.save: data/<month>_<day>_<hour>,
\* a directory for each hour of the clock
dirname(kind, hour) ==
    IF kind = "Env.follow" THEN <<"data", hour>> ELSE <<"data">>

\* glob(f"{dirname}/*_[0-9]*.npy"), Path("data").glob("*.npy"): replay.npy is
\* written to the working directory and is not among them
glob(fs, dir) == {n \in DOMAIN fs : n.dir = dir}

\* np.stack(list): ValueError for an empty list
np_stack(list) == IF list = <<>> THEN Raise("ValueError") ELSE Return(list)

\* np.save(path, array).  io is what the file system does: "ok", "fail" (the
\* file cannot be opened) or "torn" (the write stops after the file is made)
np_save(fs, path, array, io) ==
    CASE io = "ok" ->
            [files |-> Override(fs, path :> [rows |-> array, whole |-> TRUE]),
             exc |-> ""]
      [] io = "torn" ->
            [files |-> Override(fs, path :> [rows |-> <<>>, whole |-> FALSE]),
             exc |-> "OSError"]
      [] OTHER -> [files |-> fs, exc |-> "OSError"]

\* the two np.save calls of a save, the second made when the first returns
Written(r, kind, num, stacked_actions, stacked_observations, io) ==
    LET first == np_save(r.files, Path(dirname(kind, r.now), ActionStem(kind), num),
                         stacked_actions, io[1])
        second == np_save(first.files,
                          Path(dirname(kind, r.now), ObservationStem(kind), num),
                          stacked_observations, io[2])
    IN  IF first.exc # ""
        THEN [r EXCEPT !.files = first.files, !.exc = first.exc]
        ELSE [r EXCEPT !.files = second.files, !.exc = second.exc]

\* a variant that empties the buffers whatever the writes did
save_and_forget(r, kind, io) ==
    [Written([r EXCEPT !.made = Append(@, "save")], kind,
             Cardinality(glob(r.files, dirname(kind, r.now))) \div 2, r.actions,
             r.observations, io)
        EXCEPT !.actions = <<>>, !.observations = <<>>]

\* a variant that numbers a capture by the files of the directory, not by
\* the pairs
save_by_count(r, kind, io) ==
    [Written([r EXCEPT !.made = Append(@, "save")], kind,
             Cardinality(glob(r.files, dirname(kind, r.now))), r.actions,
             r.observations, io)
        EXCEPT !.actions = <<>>, !.observations = <<>>]

\* Saver.save of push_2d/wrapper.py and Env.save: number, stack and save the
\* actions, stack and save the observations, clear both buffers
save(r, kind, io) ==
    IF np_stack(r.actions).exc # ""
    THEN [r EXCEPT !.exc = np_stack(r.actions).exc, !.made = Append(@, "save")]
    ELSE LET w == Written([r EXCEPT !.made = Append(@, "save")], kind,
                          Cardinality(glob(r.files, dirname(kind, r.now))) \div 2,
                          np_stack(r.actions).value,
                          np_stack(r.observations).value, io)
         IN  IF w.exc # "" THEN w
             ELSE [w EXCEPT !.actions = <<>>, !.observations = <<>>]

\* the recorder once env.reset() has returned x
Reseated(r, x) ==
    [r EXCEPT !.env = x.env, !.agent = x.agent, !.obstacles = x.obstacles,
              !.made = Append(@, "reset"),
              !.exc = IF x.ret.kind = "raise" THEN x.ret.exc ELSE "",
              !.observation = IF x.ret.kind = "raise" THEN <<>>
                              ELSE x.ret.observation]

\* Wrapper.reset: env.reset()
Wrapper_reset(r) ==
    Reseated(r, environment_reset(r.env, <<r.agent>>, r.obstacles,
                                  agent_params, obstacles_params,
                                  space_params, FALSE))

Cleared(r) ==
    IF r.exc # "" THEN r
    ELSE [r EXCEPT !.actions = <<>>, !.observations = <<>>]

\* Saver.reset of src/push_2d/wrapper.py: reset, then clear both lists
Saver_reset(r) == Cleared(Wrapper_reset(r))

\* Saver.save of src/push_2d/wrapper.py: stack both lists, number, save
\* both, reset
Saver_save(r, io) ==
    IF np_stack(r.actions).exc # ""
    THEN [r EXCEPT !.exc = "ValueError", !.made = Append(@, "save")]
    ELSE LET w == Written([r EXCEPT !.made = Append(@, "save")],
                          "Saver.listen",
                          Cardinality(glob(r.files, <<"data">>)) \div 2,
                          np_stack(r.actions).value,
                          np_stack(r.observations).value, io)
         IN  IF w.exc # "" THEN w ELSE Saver_reset(w)

\* np.array([0, 0, 0, 0])
NoAction == Array(1, <<<<0, 0, 0, 0>>>>)

\* direction: the action of each arrow key
direction ==
    [UP |-> <<1, 0, 0, 0>>, DOWN |-> <<0, 1, 0, 0>>, LEFT |-> <<0, 0, 1, 0>>,
     RIGHT |-> <<0, 0, 0, 1>>]

\* the body of `for event in pygame.event.get()` in Saver.follow and in
\* ArrowKeyAgentOperator.listen; q calls env.close(), which is pygame.quit()
OnEvent(r, kind, event) ==
    CASE event.key = "q" ->
            [r EXCEPT !.env.init = FALSE, !.made = Append(@, "quit")]
      [] event.key = "r" ->
            IF kind = "Saver.listen" THEN Saver_reset(r) ELSE Wrapper_reset(r)
      [] event.key = "s" -> [r EXCEPT !.is_save = TRUE]
      [] event.key \in DOMAIN direction /\ event.type = "KEYDOWN" ->
            [r EXCEPT !.action = Array(1, <<direction[event.key]>>)]
      [] OTHER -> r

Handled(r, kind, event) == IF r.exc # "" THEN r ELSE OnEvent(r, kind, event)

RECURSIVE Polled(_, _, _, _)
\* pygame.event.get(), which raises pygame.error once pygame has quit, and
\* the first n events handled in turn
Polled(r, kind, events, n) ==
    IF n = 0
    THEN (IF r.env.init THEN r ELSE [r EXCEPT !.exc = "pygame.error"])
    ELSE Handled(Polled(r, kind, events, n - 1), kind, events[n])

\* the recorder once env.step(action) has returned x
Stepped(r, x) ==
    [r EXCEPT !.env = x.env,
              !.made = Append(@, "step"),
              !.exc = IF x.ret.kind = "raise" THEN x.ret.exc ELSE "",
              !.observation = IF x.ret.kind = "raise" THEN <<>>
                              ELSE x.ret.observation]

\* Wrapper.step: env.step(action)
Wrapper_step(r) ==
    IF r.exc # "" THEN r
    ELSE Stepped(r, environment_step(r.env, r.action, r.agent, r.obstacles,
                                     space_params, FALSE))

\* a variant that appends the action and leaves the observations as they are
AppendedActionOnly(r) ==
    [r EXCEPT !.actions = Append(@, r.action),
              !.made = Append(@, "capture")]

\* self.actions.append(action); self.observations.append(observation)
Appended(r) ==
    [r EXCEPT !.actions = Append(@, r.action),
              !.observations = Append(@, r.observation),
              !.made = Append(@, "capture")]

\* Saver.follow: self.save(); self.is_save = False
Finished(r) == IF r.exc # "" THEN r ELSE [r EXCEPT !.is_save = FALSE]

\* a variant that saves once the buffers hold more than save_length samples
KeptLate(r, io) ==
    IF Len(r.actions) > save_length
    THEN Finished(save(r, "Saver.follow", io))
    ELSE r

\* Saver.follow: if len(self.actions) == self.save_length
Kept(r, io) ==
    IF Len(r.actions) = save_length
    THEN Finished(save(r, "Saver.follow", io))
    ELSE r

\* Saver.follow after the step: an idle pass records nothing, and neither
\* does a pass made while is_save is clear
AfterStep(r, io) ==
    IF r.exc # "" \/ r.action = NoAction \/ ~r.is_save THEN r
    ELSE Kept(Appended(r), io)

\* one pass of the `while True` of Saver.follow
follow(r, events, io) ==
    AfterStep(Wrapper_step(Polled(r, "Saver.follow", events, Len(events))),
              io)

\* Saver.listen: if not np.all(action == 0): step and append
Captured(r) == IF r.exc # "" THEN r ELSE Appended(r)

Acted(r) ==
    IF r.exc # "" \/ r.action = NoAction THEN r
    ELSE Captured(Wrapper_step(r))

\* Saver.listen: if len(self.action_list) == self.seq_len: self.save()
AtLength(r, io) ==
    IF r.exc = "" /\ Len(r.actions) = save_length THEN Saver_save(r, io)
    ELSE r

\* Saver.listen, one pass of `while True: saver.listen()`
listen(r, events, io) ==
    AtLength(Acted(Polled(r, "Saver.listen", events, Len(events))), io)

\* observation_list.append(observation)
Listed(r) ==
    IF r.exc # "" THEN r ELSE [r EXCEPT !.out = Append(@, r.observation)]

RECURSIVE Rerun(_, _, _)
\* Saver.replay: observation_list = [self.reset()[0]], then one step and
\* one append for each of the first n actions
Rerun(r, rows, n) ==
    IF n = 0 THEN Listed(Wrapper_reset(r))
    ELSE Listed(Wrapper_step([Rerun(r, rows, n - 1) EXCEPT !.action = rows[n]]))

\* np.save("replay.npy", np.stack(observation_list))
Exported(r, io) ==
    IF r.exc # "" THEN r
    ELSE [r EXCEPT !.files = np_save(r.files, Path(<<>>, "replay", 0), r.out,
                                     io).files,
                   !.exc = np_save(r.files, Path(<<>>, "replay", 0), r.out, io).exc]

\* Saver.replay(actions)
replay(r, rows, io) == Exported(Rerun(r, rows, Len(rows)), io)

(***************************************************************************)
(* push2d-simulator: Env and its Space (components.py).                    *)
(***************************************************************************)
\* cfg.screen, cfg.tracker, cfg.save; cfg.objects is empty
EnvConfig(fps, save_fps) ==
    [screen |-> SpaceParameters(162, 112, fps, "black"),
     tracker |-> CircleParameters(20, Vec2d(81, 31), "blue", 1050),
     save |-> [fps |-> save_fps, length |-> save_length]]

\* Space.add_segments of components.py: four walls of radius 1
Segment(gen, k, a, b, color) ==
    Id(gen, "wall", k) :>
        [kind |-> "Segment", body |-> static_body, radius |-> 1,
         mass |-> 0, color |-> color, elasticity |-> 1, a |-> a, b |-> b]

Space_add_segments(w, gen, width, height, color) ==
    SpaceAdd(w, <<>>,
             Segment(gen, 1, Vec2d(0, 1), Vec2d(width, 1), color)
             @@ Segment(gen, 2, Vec2d(1, 0), Vec2d(1, height), color)
             @@ Segment(gen, 3, Vec2d(width - 1, 0), Vec2d(width - 1, height),
                        color)
             @@ Segment(gen, 4, Vec2d(0, height - 1), Vec2d(width, height - 1),
                        color),
             <<>>)

\* the recorder with the tracker t in a Space cleared to w
Tracking(r, w, c, gen, t) ==
    [r EXCEPT !.env.world =
                  Collect(Space_add_segments(add_circle(w, t), gen,
                                             c.screen.width, c.screen.height,
                                             c.screen.color),
                          <<>>, <<t>>),
              !.tracker = <<t>>,
              !.actions = <<>>,
              !.observations = <<>>,
              !.made = Append(@, "reset")]

Cleaned(r, w, c) ==
    Tracking(r, w, c, FreshGen(w, <<>>, r.tracker),
             Circle(c.tracker, FreshGen(w, <<>>, r.tracker), 0))

\* Env.reset: clear the Space, add a new tracker and the walls, clear both
\* buffers
Env_reset(r, c) == Cleaned(r, clear(r.env.world), c)

\* round(normalized[i], 0) for the vector v: 1 or -1 when the component is
\* more than half the length, else 0
Heading(v) ==
    Vec2d(IF 3 * v[1] * v[1] > v[2] * v[2]
          THEN (IF v[1] > 0 THEN 1 ELSE -1) ELSE 0,
          IF 3 * v[2] * v[2] > v[1] * v[1]
          THEN (IF v[2] > 0 THEN 1 ELSE -1) ELSE 0)

\* tracker.body.velocity = Vec2d(x, y) * velocity, toward the target
Steered(r, c, target) ==
    [r EXCEPT !.env.world.bodies[r.tracker[1].body].velocity =
        VecMul(Heading(VecSub(target,
                              r.env.world.bodies[r.tracker[1].body].position)),
               c.tracker.velocity)]

\* mouse_track: toward the mouse, kept 10 pixels inside the screen
mouse_track(r, c, mouse) ==
    Steered(r, c, Vec2d(Clip(mouse[1], 10, c.screen.width - 10),
                        Clip(mouse[2], 10, c.screen.height - 10)))

\* rollout: toward the recorded position
rollout(r, c, action) == Steered(r, c, Vec2d(action[1], action[2]))

\* what Space.step of components.py leaves
Ticked(r, e) ==
    [r EXCEPT !.env = e, !.exc = e.world.err, !.made = Append(@, "tick")]

\* Space.step: fill, debug_draw, flip, step(1 / fps), clock.tick(fps)
Space_step(r, c) == Ticked(r, space_render(r.env, c.screen))

\* Env.get_action, Env.get_observation appended; save at cfg.save.length
EnvKept(r, io) ==
    IF Len(r.actions) = save_length THEN save(r, "Env.follow", io) ELSE r

EnvAppended(r) ==
    [r EXCEPT !.actions =
                  Append(@, r.env.world.bodies[r.tracker[1].body].position),
              !.observations = Append(@, get_observation(r.env.world)),
              !.made = Append(@, "capture")]

\* the body of `for event in pygame.event.get()` in Env.follow
EnvOnEvent(r, c, event, io) ==
    CASE event.key = "q" -> [r EXCEPT !.done = TRUE, !.made = Append(@, "quit")]
      [] event.key = "r" -> Env_reset(r, c)
      [] event.key = "s" -> EnvKept(EnvAppended(r), io)
      [] OTHER -> r

EnvHandled(r, c, event, io) ==
    IF r.exc # "" \/ r.done THEN r ELSE EnvOnEvent(r, c, event, io)

RECURSIVE EnvPolled(_, _, _, _, _)
EnvPolled(r, c, events, n, io) ==
    IF n = 0 THEN r
    ELSE EnvHandled(EnvPolled(r, c, events, n - 1, io), c, events[n], io)

EnvTracked(r, c, mouse) ==
    IF r.exc # "" \/ r.done THEN r ELSE Space_step(mouse_track(r, c, mouse), c)

\* one pass of the `while True` of Env.follow
Env_follow(r, c, events, mouse, io) ==
    EnvTracked(EnvPolled(r, c, events, Len(events), io), c, mouse)

RECURSIVE Rolled(_, _, _, _), RolledOnce(_, _, _, _)
\* a variant that commands the tracker once, before the first tick
RolledOnce(r, c, action, n) ==
    IF n = 0 THEN r
    ELSE IF n = 1 THEN Space_step(rollout(r, c, action), c)
    ELSE Space_step(RolledOnce(r, c, action, n - 1), c)

\* for _ in range(span): rollout(...); self.space.step()
Rolled(r, c, action, n) ==
    IF n = 0 THEN r
    ELSE Space_step(rollout(Rolled(r, c, action, n - 1), c, action), c)

\* Env.replay(action)
Env_replay(r, c, action) ==
    IF Len(action) # 2 THEN [r EXCEPT !.exc = "AssertionError"]
    ELSE Rolled(r, c, action, c.screen.fps \div c.save.fps)

(***************************************************************************)
(* The recorders' state machine.  The files outlive a recorder: Restart    *)
(* is a new process with a new recorder of the same class.                 *)
(***************************************************************************)
Recorder(e, ag, obs, t, acts, os, flag, fs) ==
    [env |-> e, agent |-> ag, obstacles |-> obs, tracker |-> t,
     actions |-> acts, observations |-> os, is_save |-> flag, files |-> fs,
     action |-> NoAction, observation |-> <<>>, out |-> <<>>, made |-> <<>>,
     exc |-> "", done |-> FALSE, now |-> 0]

\* the recorder at the start of a call; the waits of the clock are counted
\* from there
TheRecorder ==
    [Recorder(Windowed(TheWorld, display, 0, pygame_init), agent, obstacles,
              tracker, actions, observations, is_save, files)
        EXCEPT !.now = now]

BlankEnv(sp) ==
    Windowed(World(EmptySpace, BlankScreen(sp),
                   static_body :> Body("STATIC", Zero), <<>>, <<>>, ""),
             {}, 0, TRUE)

Wrapped(x, fs) ==
    Recorder([x.env EXCEPT !.clock = 0], x.agent, x.obstacles, <<>>, <<>>,
             <<>>, FALSE, fs)

\* Saver.__init__ around a new Push2D
NewSaver(fs) ==
    Wrapped(environment_reset(BlankEnv(space_params), <<>>, <<>>, AGENT, <<>>,
                              space_params, FALSE), fs)

\* Env.__init__: the Space, the empty buffers, reset()
NewEnv(c, fs) ==
    [Env_reset(Recorder(BlankEnv(c.screen), <<>>, <<>>, <<>>, <<>>, <<>>,
                        FALSE, fs), c) EXCEPT !.made = <<>>]

New(kind, c, fs) ==
    IF kind = "Env.follow" THEN NewEnv(c, fs) ELSE NewSaver(fs)

SaverConfig == [save |-> [length |-> save_length]]

EnvConfigs == {EnvConfig(20, save_fps) : save_fps \in {8, 20, 40}}

Configs(kind) == IF kind = "Env.follow" THEN EnvConfigs ELSE {SaverConfig}

InitRec ==
    \E kind \in Recorders :
    \E c \in Configs(kind) :
    \E r \in {New(kind, c, <<>>)} :
        /\ recorder = kind
        /\ cfg = c
        /\ agent_params = AGENT
        /\ obstacles_params = <<>>
        /\ reward_factory = "AbstractRewardFactory"
        /\ space = r.env.world.space
        /\ screen = r.env.world.screen
        /\ bodies = r.env.world.bodies
        /\ shapes = r.env.world.shapes
        /\ constraints = r.env.world.constraints
        /\ agent = r.agent
        /\ obstacles = r.obstacles
        /\ acceleration = FALSE
        /\ display = r.env.display
        /\ clock = 0
        /\ pygame_init = r.env.init
        /\ tracker = r.tracker
        /\ actions = r.actions
        /\ observations = r.observations
        /\ is_save = r.is_save
        /\ files = r.files
        /\ loop = "running"
        /\ now = 0
        /\ call = [op |-> "__init__"]
        /\ ret = [kind |-> "none"]

\* the state a recorder method leaves, and what the call gave
SetRecorder(r) ==
    /\ SetWorld(r.env.world)
    /\ display' = r.env.display
    /\ pygame_init' = r.env.init
    /\ agent' = r.agent
    /\ obstacles' = r.obstacles
    /\ tracker' = r.tracker
    /\ actions' = r.actions
    /\ observations' = r.observations
    /\ is_save' = r.is_save
    /\ files' = r.files
    /\ ret' = [kind |-> IF r.exc # "" THEN "raise" ELSE "return",
               exc |-> r.exc, made |-> r.made, ticks |-> r.env.clock,
               observation |-> r.observation, out |-> r.out]
    /\ UNCHANGED <<agent_params, obstacles_params, reward_factory,
                   acceleration, clock, recorder, cfg, now>>

\* the directory holds no capture numbered most or more
Followed(r, most) ==
    /\ \A n \in DOMAIN r.files : n.num < most
    /\ Cardinality({n \in DOMAIN r.files : n.dir # <<>>}) <= 2 * most

KeyDown(k) == [key |-> k, type |-> "KEYDOWN"]

\* what pygame.event.get() returns in a pass of a Saver's loop
Batches ==
    {<<>>, <<[key |-> "RIGHT", type |-> "KEYUP"]>>}
    \cup {<<KeyDown(k)>> : k \in {"q", "r", "s", "LEFT", "RIGHT"}}
    \cup {<<KeyDown("q"), KeyDown("RIGHT")>>, <<KeyDown("RIGHT"), KeyDown("q")>>,
          <<KeyDown("q"), KeyDown("r")>>, <<KeyDown("r"), KeyDown("RIGHT")>>,
          <<KeyDown("s"), KeyDown("LEFT")>>}

\* and in a pass of Env.follow
EnvBatches ==
    {<<>>} \cup {<<KeyDown(k)>> : k \in {"q", "r", "s"}}
    \cup {<<KeyDown("s"), KeyDown("s")>>, <<KeyDown("q"), KeyDown("s")>>,
          <<KeyDown("r"), KeyDown("s")>>, <<KeyDown("s"), KeyDown("q")>>}

\* the batches of the sessions that fill the buffers with few different
\* samples: a move from the start for Saver.follow, a move to and fro for
\* Saver.listen, a tracker at rest for Env.follow
SaveBatches(kind) ==
    CASE kind = "Saver.follow" ->
            {<<KeyDown("s")>>, <<KeyDown("r"), KeyDown("RIGHT")>>,
             <<KeyDown("q")>>}
      [] kind = "Saver.listen" ->
            {<<KeyDown("RIGHT")>>, <<KeyDown("LEFT")>>, <<KeyDown("q")>>}
      [] OTHER -> {<<KeyDown("s")>>, <<KeyDown("q")>>}

\* where the mouse is
Mice == {Vec2d(31, 31), Vec2d(131, 31)}

\* what the file system does to the two writes of a save
Writes ==
    {<<"ok", "ok">>, <<"fail", "ok">>, <<"torn", "ok">>, <<"ok", "fail">>,
     <<"ok", "torn">>}

\* a pass that cannot reach save_length writes nothing
WritesAt(events) ==
    IF Len(actions) + Len(events) >= save_length THEN Writes
    ELSE {<<"ok", "ok">>}

Exit(r) ==
    IF r.exc # "" THEN "raised" ELSE IF r.done THEN "returned" ELSE "running"

\* one pass of Saver.follow
Follow(events, io, most) ==
    /\ recorder = "Saver.follow"
    /\ loop = "running"
    /\ \E r \in {follow(TheRecorder, events, io)} :
          /\ Followed(r, most)
          /\ DriftOk(r.env.world, r.agent, space_params)
          /\ SetRecorder(r)
          /\ loop' = Exit(r)
    /\ call' = [op |-> "follow"]

\* one pass of `while True: saver.listen()`
Listen(events, io, most) ==
    /\ recorder = "Saver.listen"
    /\ loop = "running"
    /\ \E r \in {listen(TheRecorder, events, io)} :
          /\ Followed(r, most)
          /\ DriftOk(r.env.world, r.agent, space_params)
          /\ SetRecorder(r)
          /\ loop' = Exit(r)
    /\ call' = [op |-> "listen"]

\* one pass of Env.follow
EnvFollow(events, mouse, io, most) ==
    /\ recorder = "Env.follow"
    /\ loop = "running"
    /\ \E r \in {Env_follow(TheRecorder, cfg, events, mouse, io)} :
          /\ Followed(r, most)
          /\ SetRecorder(r)
          /\ loop' = Exit(r)
    /\ call' = [op |-> "follow"]

\* recorder.save(), called before the loop starts or once it is over
Save(io) ==
    /\ loop # "running" \/ call.op = "__init__"
    /\ pygame_init
    /\ \E r \in {IF recorder = "Saver.listen" THEN Saver_save(TheRecorder, io)
                 ELSE save(TheRecorder, recorder, io)} :
          /\ Followed(r, MaxCaptures)
          /\ SetRecorder(r)
    /\ call' = [op |-> "save"]
    /\ UNCHANGED loop

\* the captures of the directory read back whole
Captures ==
    {k \in 0..(MaxCaptures - 1) :
        /\ Path(<<"data">>, "raw_action", k) \in DOMAIN files
        /\ Path(<<"data">>, "raw_obs", k) \in DOMAIN files
        /\ files[Path(<<"data">>, "raw_action", k)].whole
        /\ files[Path(<<"data">>, "raw_obs", k)].whole}

\* saver.replay(np.load("data/raw_action_<k>.npy"))
Replay(k, io) ==
    /\ recorder = "Saver.follow"
    /\ loop # "running" \/ call.op \in {"__init__", "replay"}
    /\ pygame_init
    /\ k \in Captures
    /\ \E r \in {replay(TheRecorder, files[Path(<<"data">>, "raw_action", k)].rows, io)} :
          /\ DriftOk(r.env.world, r.agent, space_params)
          /\ SetRecorder(r)
    /\ call' = [op |-> "replay", capture |-> k]
    /\ UNCHANGED loop

\* recorded positions, and an array of another shape
Targets == {<<31, 31>>, <<131, 31>>, <<1, 0, 0, 0>>}

\* env.replay(action)
EnvReplay(action) ==
    /\ recorder = "Env.follow"
    /\ loop # "running" \/ call.op \in {"__init__", "replay"}
    /\ \E r \in {Env_replay(TheRecorder, cfg, action)} : SetRecorder(r)
    /\ call' = [op |-> "replay", action |-> action]
    /\ UNCHANGED loop

\* the process ends and a new one constructs a new recorder
Restart ==
    /\ loop # "running"
    /\ \E r \in {New(recorder, cfg, files)} : SetRecorder(r)
    /\ call' = [op |-> "__init__"]
    /\ loop' = "running"

\* the clock of datetime.now() reaches the next hour
Hour ==
    /\ recorder = "Env.follow"
    /\ now < MaxHours
    /\ now' = now + 1
    /\ call' = [op |-> "now"]
    /\ ret' = [kind |-> "return", exc |-> "", made |-> <<>>, ticks |-> 0,
               observation |-> <<>>, out |-> <<>>]
    /\ UNCHANGED <<agent_params, obstacles_params, reward_factory, space,
                   screen, bodies, shapes, constraints, agent, obstacles,
                   win_vars, recorder, cfg, tracker, actions, observations,
                   is_save, files, loop>>

\* the loops, followed until the first capture is saved, and the replays
NextRec ==
    \/ \E events \in Batches : Follow(events, <<"ok", "ok">>, 1)
    \/ \E events \in Batches : Listen(events, <<"ok", "ok">>, 1)
    \/ \E events \in EnvBatches : \E mouse \in Mice :
          EnvFollow(events, mouse, <<"ok", "ok">>, 1)
    \/ \E io \in {"ok", "fail"} : Replay(0, io)
    \/ \E action \in Targets : EnvReplay(action)
    \/ Restart

SpecRec == InitRec /\ [][NextRec]_vars

\* the saves: sessions that record, fail or not at a write, and start again
NextSave ==
    \/ \E events \in SaveBatches("Saver.follow") :
       \E io \in WritesAt(events) : Follow(events, io, MaxCaptures)
    \/ \E events \in SaveBatches("Saver.listen") :
       \E io \in WritesAt(events) : Listen(events, io, MaxCaptures)
    \/ \E events \in SaveBatches("Env.follow") :
       \E io \in WritesAt(events) :
          EnvFollow(events, cfg.tracker.position, io, MaxCaptures)
    \/ \E io \in Writes : Save(io)
    \/ Restart
    \/ Hour

\* one configuration of the Env
InitSave == InitRec /\ cfg \in {SaverConfig, EnvConfig(20, 20)}

SpecSave == InitSave /\ [][NextSave]_vars

(***************************************************************************)
(* push2d: the Push2D of src/push2d/environment.py, whose action is a      *)
(* position to track.  Its agent is a Circle like the obstacles: one       *)
(* dynamic body, held to the static body by the pivot of Space.add.        *)
(***************************************************************************)
TrackSpace == SpaceParameters(162, 112, 20, "black")

TRACKER == CircleParameters(20, Vec2d(81, 31), "blue", 1050)
TRACKER2 == CircleParameters(20, Vec2d(81, 81), "blue", 1050)

\* Push2D._get_object_info: p.body.positions is not an attribute of a Body
get_object_info(w, ag, obs) ==
    IF obs # <<>> THEN Raise("AttributeError")
    ELSE Return([agent_position |-> w.bodies[ag.body].position,
                 agent_velocity |-> w.bodies[ag.body].velocity,
                 obstacles_position |-> <<>>,
                 obstacles_velocity |-> <<>>])

\* what reset() and step() give once the tick is made
Outcome(w, kind, ag, obs) ==
    IF w.err # "" THEN [kind |-> "raise", exc |-> w.err]
    ELSE IF get_object_info(w, ag, obs).exc # ""
    THEN [kind |-> "raise", exc |-> get_object_info(w, ag, obs).exc]
    ELSE [kind |-> kind, observation |-> get_observation(w),
          info |-> get_object_info(w, ag, obs).value]

\* the Space with the agent, the obstacles and the walls, rendered once
Populated(w, gen, a, circles, sp) ==
    Collect(render(Space_add_segments(
                       AddObstacles(add_circle(w, a), circles, Len(circles)),
                       gen, sp.width, sp.height, sp.color), sp),
            <<>>, <<a>> \o circles)

Rebuilt(w, gen, a, circles, sp) ==
    [world |-> Populated(w, gen, a, circles, sp), agent |-> a,
     obstacles |-> circles,
     ret |-> Outcome(Populated(w, gen, a, circles, sp), "reset", a, circles)]

\* Push2D.reset of push2d after the options are merged
track_reset(w, old, ap, ops, sp) ==
    Rebuilt(clear(w), FreshGen(clear(w), <<>>, old),
            Circle(ap, FreshGen(clear(w), <<>>, old), 0),
            [i \in DOMAIN ops |->
                Circle(ops[i], FreshGen(clear(w), <<>>, old), i)],
            sp)

\* the velocity step() commands for the target: the direction to it,
\* normalized and rounded, times the speed
Commanded(position, target, speed) ==
    VecMul(Heading(VecSub(target, position)), speed)

Ticked2(w, ag, obs) == [world |-> w, ret |-> Outcome(w, "step", ag, obs)]

\* Push2D.step of push2d: command the agent's body, render, observe
track_step(w, action, ag, obs, sp) ==
    Ticked2(render([w EXCEPT !.bodies[ag.body].velocity =
                        Commanded(w.bodies[ag.body].position, action,
                                  ag.params.velocity)], sp),
            ag, obs)

TrackOptions ==
    [agent_params : {<<>>, <<TRACKER2>>},
     obstacles_params : {<<>>, <<<<>>>>, <<<<GREEN>>>>}]

TrackTargets ==
    {Vec2d(31, 31), Vec2d(131, 31), Vec2d(81, 31), Vec2d(81, 81),
     Vec2d(131, 81)}

\* Push2D.__init__ of push2d
InitTrack ==
    \E ops \in {<<>>, <<GREEN>>} :
    \E r \in {track_reset(World(EmptySpace, BlankScreen(TrackSpace),
                                static_body :> Body("STATIC", Zero), <<>>,
                                <<>>, ""),
                          <<>>, TRACKER, ops, TrackSpace)} :
        /\ agent_params = TRACKER
        /\ obstacles_params = ops
        /\ reward_factory = "none"
        /\ space = r.world.space
        /\ screen = r.world.screen
        /\ bodies = r.world.bodies
        /\ shapes = r.world.shapes
        /\ constraints = r.world.constraints
        /\ agent = r.agent
        /\ obstacles = r.obstacles
        /\ call = [op |-> "__init__"]
        /\ ret = [kind |-> "none"]
        /\ NewWindow
        /\ NoRecorder

Merged(options, key, stored) ==
    IF options[key] = <<>> THEN stored ELSE options[key][1]

\* env.reset(options=...)
TrackReset(options) ==
    \E r \in {track_reset(TheWorld, <<agent>> \o obstacles,
                          Merged(options, "agent_params", agent_params),
                          Merged(options, "obstacles_params",
                                 obstacles_params),
                          TrackSpace)} :
        /\ agent_params' = Merged(options, "agent_params", agent_params)
        /\ obstacles_params' =
              Merged(options, "obstacles_params", obstacles_params)
        /\ SetWorld(r.world)
        /\ agent' = r.agent
        /\ obstacles' = r.obstacles
        /\ call' = [op |-> "reset", options |-> options]
        /\ ret' = r.ret
        /\ UNCHANGED <<reward_factory, win_vars, rec_vars>>

\* env.step(action)
TrackStep(action) ==
    \E r \in {track_step(TheWorld, action, agent, obstacles, TrackSpace)} :
        /\ SetWorld(r.world)
        /\ call' = [op |-> "step", action |-> action]
        /\ ret' = r.ret
        /\ UNCHANGED <<agent_params, obstacles_params, reward_factory, agent,
                       obstacles, win_vars, rec_vars>>

NextTrack ==
    \/ \E options \in TrackOptions : TrackReset(options)
    \/ \E action \in TrackTargets : TrackStep(action)

SpecTrack == InitTrack /\ [][NextTrack]_vars

(***************************************************************************)
(* The actuator: an Agent whose speed the pivot cannot give in one tick.   *)
(* At 20 ticks a second the pivot (max_force 10000, mass 10) changes the   *)
(* velocity of the dynamic body by at most 50 a tick.                      *)
(***************************************************************************)
PivotSpace == SpaceParameters(122, 112, 20, "black")

PUSHER == CircleParameters(20, Vec2d(61, 56), "blue", 120)

\* right, left and no key
Pushes ==
    {Array(1, <<f>>) : f \in {<<0, 0, 0, 1>>, <<0, 0, 1, 0>>, <<0, 0, 0, 0>>}}

\* the state a constructor's reset leaves
SetInit(r) ==
    /\ space = r.world.space
    /\ screen = r.world.screen
    /\ bodies = r.world.bodies
    /\ shapes = r.world.shapes
    /\ constraints = r.world.constraints
    /\ agent = r.agent
    /\ obstacles = r.obstacles

\* Push2D(PivotSpace, PUSHER, [])
InitPivot ==
    \E r \in {reset(World(EmptySpace, BlankScreen(PivotSpace),
                          static_body :> Body("STATIC", Zero), <<>>, <<>>, ""),
                    <<>>, <<>>, PUSHER, <<>>, PivotSpace)} :
        /\ agent_params = PUSHER
        /\ obstacles_params = <<>>
        /\ reward_factory = "AbstractRewardFactory"
        /\ SetInit(r)
        /\ call = [op |-> "__init__"]
        /\ ret = [kind |-> "none"]
        /\ NewWindow
        /\ NoRecorder

\* env.step(action)
PivotStep(action) ==
    \E r \in {step(TheWorld, action, agent, agent_params, obstacles,
                  reward_factory, PivotSpace)} :
        /\ DriftOk(r.world, agent, PivotSpace)
        /\ SetWorld(r.world)
        /\ call' = [op |-> "step", action |-> action]
        /\ ret' = r.ret
        /\ UNCHANGED <<agent_params, obstacles_params, reward_factory, agent,
                       obstacles, win_vars, rec_vars>>

NextPivot == \E action \in Pushes : PivotStep(action)

SpecPivot == InitPivot /\ [][NextPivot]_vars

(***************************************************************************)
(* push2d-simulator: Circle.from_dictconfig, a pure function of the        *)
(* configuration but for the two calls of randint.                         *)
(***************************************************************************)
MaxSide == 6         \* largest screen_width and screen_height tried

\* no environment has been made: the state of a specification that calls
\* functions of the components only
NoEnvironment ==
    /\ agent_params = <<>>
    /\ obstacles_params = <<>>
    /\ reward_factory = "none"
    /\ space = EmptySpace
    /\ screen = BlankScreen(space_params)
    /\ bodies = static_body :> Body("STATIC", Zero)
    /\ shapes = <<>>
    /\ constraints = <<>>
    /\ agent = <<>>
    /\ obstacles = <<>>

\* a DictConfig: a key that is absent holds <<>>, one that is present <<v>>
DictConfig(radius, color, position, screen_width, screen_height) ==
    [radius |-> radius, color |-> color, position |-> position,
     screen_width |-> screen_width, screen_height |-> screen_height]

\* "key" in cfg
Has(c, key) == c[key] # <<>>

DictConfigs ==
    {DictConfig(r, "red", p, w, h) :
        r \in 1..3,
        p \in {<<>>, <<Vec2d(0, 0)>>, <<Vec2d(4, 9)>>},
        w \in {<<>>} \cup {<<n>> : n \in 3..MaxSide},
        h \in {<<>>} \cup {<<n>> : n \in 3..MaxSide}}

\* a variant that draws from 0 up to b
randint_from_zero(a, b) == 0..b

\* random.randint(a, b): the values it may return (none: ValueError)
randint(a, b) == a..b

\* Circle(radius, position, color) as from_dictconfig returns it
NewCircle(radius, position, color) ==
    [radius |-> radius, position |-> position, color |-> color]

Drawn2(c, xs, ys) ==
    IF xs = {} \/ ys = {} THEN {Raise("ValueError")}
    ELSE {Return(NewCircle(c.radius, Vec2d(x, y), c.color)) :
            x \in xs, y \in ys}

\* Circle.from_dictconfig(cfg): the outcomes it may have
from_dictconfig(c) ==
    IF Has(c, "position")
    THEN {Return(NewCircle(c.radius, c.position[1], c.color))}
    ELSE IF Has(c, "screen_width") /\ Has(c, "screen_height")
    THEN Drawn2(c, randint(c.radius, c.screen_width[1] - c.radius),
                randint(c.radius, c.screen_height[1] - c.radius))
    ELSE {Raise("NotImplementedError")}

InitCfg ==
    /\ NoEnvironment
    /\ call \in {[op |-> "from_dictconfig", cfg |-> c] : c \in DictConfigs}
    /\ ret = [kind |-> "none"]
    /\ NewWindow
    /\ NoRecorder

\* Circle.from_dictconfig(cfg)
FromDictconfig ==
    /\ call.op = "from_dictconfig"
    /\ ret.kind = "none"
    /\ \E r \in from_dictconfig(call.cfg) :
          ret' = [kind |-> "from_dictconfig", exc |-> r.exc,
                  value |-> r.value]
    /\ UNCHANGED <<agent_params, obstacles_params, reward_factory, space,
                   screen, bodies, shapes, constraints, agent, obstacles, call,
                   win_vars, rec_vars>>

NextCfg == FromDictconfig

SpecCfg == InitCfg /\ [][NextCfg]_vars

(***************************************************************************)
(* src/src/push_2d/component: the resettable components.  A component      *)
(* stores the arguments its constructor hands to                           *)
(* ResettableComponentMeta.__init__ and reset() calls self.__init__ again  *)
(* with them: the positional ones by position, the others by keyword.      *)
(***************************************************************************)
MaxDrift == 2        \* how far the solver takes a body from its first place

\* the parameters of each __init__: those that may be given by position, and
\* those after the bare * of Segment.__init__, that may not
Signature(cls) ==
    CASE cls = "Circle" ->
            [positional |-> <<"radius", "x_position", "y_position", "color">>,
             keyword_only |-> <<>>]
      [] cls = "DynamicBox" ->
            [positional |-> <<"radius", "x_position", "y_position", "color">>,
             keyword_only |-> <<>>]
      [] cls = "CircleAgent" ->
            [positional |-> <<"x_position", "y_position", "color", "velocity",
                              "radius">>,
             keyword_only |-> <<>>]
      [] cls = "Segment" ->
            [positional |-> <<>>,
             keyword_only |-> <<"x_start_position", "y_start_position",
                                "x_end_position", "y_end_position", "radius",
                                "color">>]

Names(s) == {s[i] : i \in DOMAIN s}

Keys(kwargs) == {kwargs[i][1] : i \in DOMAIN kwargs}

\* the value the call gives to the parameter called name
Given(sig, args, kwargs, name) ==
    IF \E i \in DOMAIN args : sig.positional[i] = name
    THEN args[CHOOSE i \in DOMAIN args : sig.positional[i] = name]
    ELSE kwargs[CHOOSE i \in DOMAIN kwargs : kwargs[i][1] = name][2]

\* Python's binding of a call to the parameters: too many positional
\* arguments, an unknown or repeated keyword, or a missing parameter is a
\* TypeError
Binds(sig, args, kwargs) ==
    /\ Len(args) <= Len(sig.positional)
    /\ Keys(kwargs) \cap {sig.positional[i] : i \in DOMAIN args} = {}
    /\ Keys(kwargs) \cup {sig.positional[i] : i \in DOMAIN args}
          = Names(sig.positional) \cup Names(sig.keyword_only)

\* what each __init__ hands to ResettableComponentMeta.__init__
Stored(cls, p) ==
    CASE cls \in {"Circle", "DynamicBox"} ->
            [args |-> <<p["radius"], p["x_position"], p["y_position"],
                        p["color"]>>,
             kwargs |-> <<>>]
      [] cls = "CircleAgent" ->
            [args |-> <<p["x_position"], p["y_position"], p["color"],
                        p["velocity"]>>,
             kwargs |-> << <<"radius", p["radius"]>> >>]
      [] cls = "Segment" ->
            [args |-> <<p["x_start_position"], p["y_start_position"],
                        p["x_end_position"], p["y_end_position"], p["radius"],
                        p["color"]>>,
             kwargs |-> <<>>]

\* the attributes __init__ sets; a Segment lies from a to b on a static body
Built(cls, p) ==
    [cls |-> cls,
     initial_state |-> Stored(cls, p),
     body |-> IF cls = "Segment" THEN Body("STATIC", Zero)
              ELSE Body("DYNAMIC", Vec2d(p["x_position"], p["y_position"])),
     control_body |->
         IF cls = "CircleAgent"
         THEN Body("KINEMATIC", Vec2d(p["x_position"], p["y_position"]))
         ELSE Body("none", Zero),
     a |-> IF cls = "Segment"
           THEN Vec2d(p["x_start_position"], p["y_start_position"]) ELSE Zero,
     b |-> IF cls = "Segment"
           THEN Vec2d(p["x_end_position"], p["y_end_position"]) ELSE Zero,
     radius |-> p["radius"],
     color |-> p["color"],
     velocity |-> IF cls = "CircleAgent" THEN p["velocity"] ELSE 0]

\* cls.__init__(self, *args, **kwargs)
Construct(cls, args, kwargs) ==
    IF ~Binds(Signature(cls), args, kwargs) THEN Raise("TypeError")
    ELSE Return(Built(cls,
                      [n \in Names(Signature(cls).positional)
                              \cup Names(Signature(cls).keyword_only) |->
                          Given(Signature(cls), args, kwargs, n)]))

\* ResettableComponentMeta.reset: when __init__ raises the object is as it
\* was
component_reset(c) ==
    Construct(c.cls, c.initial_state.args, c.initial_state.kwargs)

\* the constructor calls of the model
Constructions ==
    {[cls |-> cls, args |-> <<20, x, 31, "red">>, kwargs |-> <<>>] :
        cls \in {"Circle", "DynamicBox"}, x \in {31, 81}}
    \cup {[cls |-> "CircleAgent", args |-> <<x, 31, "blue", 50>>,
           kwargs |-> << <<"radius", 20>> >>] : x \in {31, 81}}
    \cup {[cls |-> "CircleAgent", args |-> <<81, 31, "blue", 50, 20>>,
           kwargs |-> <<>>]}
    \cup {[cls |-> "Segment", args |-> <<>>,
           kwargs |-> << <<"x_start_position", 0>>, <<"y_start_position", 1>>,
                         <<"x_end_position", w>>, <<"y_end_position", 1>>,
                         <<"radius", 1>>, <<"color", "black">> >>] :
            w \in {162}}

\* a component just made; agent_params keeps the call that made it
InitComp ==
    \E k \in Constructions :
        /\ agent_params = k
        /\ obstacles_params = <<>>
        /\ reward_factory = "none"
        /\ space = EmptySpace
        /\ screen = BlankScreen(space_params)
        /\ bodies = static_body :> Body("STATIC", Zero)
        /\ shapes = <<>>
        /\ constraints = <<>>
        /\ agent = Construct(k.cls, k.args, k.kwargs).value
        /\ obstacles = <<>>
        /\ call = [op |-> "__init__"]
        /\ ret = [kind |-> "none"]
        /\ NewWindow
        /\ NoRecorder

comp_rest ==
    <<agent_params, obstacles_params, reward_factory, space, screen, bodies,
      shapes, constraints, obstacles, win_vars, rec_vars>>

Near2(p, q) ==
    /\ p[1] - q[1] \in -MaxDrift..MaxDrift
    /\ p[2] - q[2] \in -MaxDrift..MaxDrift

\* a tick of a Space takes the dynamic body where its velocity leads
Drift(v) ==
    /\ agent.body.body_type = "DYNAMIC"
    /\ Near2(VecAdd(agent.body.position, v),
             Construct(agent_params.cls, agent_params.args,
                       agent_params.kwargs).value.body.position)
    /\ agent' = [agent EXCEPT !.body.position = VecAdd(@, v),
                              !.body.velocity = v]
    /\ call' = [op |-> "space.step"]
    /\ ret' = [kind |-> "none"]
    /\ UNCHANGED comp_rest

\* Push2D.step sets the velocity of the agent's control body
Command(v) ==
    /\ agent.cls = "CircleAgent"
    /\ agent' = [agent EXCEPT !.control_body.velocity = v]
    /\ call' = [op |-> "step"]
    /\ ret' = [kind |-> "none"]
    /\ UNCHANGED comp_rest

\* component.reset()
ComponentReset ==
    \E r \in {component_reset(agent)} :
        /\ agent' = IF r.exc # "" THEN agent ELSE r.value
        /\ call' = [op |-> "component.reset"]
        /\ ret' = IF r.exc # "" THEN [kind |-> "raise", exc |-> r.exc]
                  ELSE [kind |-> "component.reset"]
        /\ UNCHANGED comp_rest

NextComp ==
    \/ \E v \in {Vec2d(1, 0), Vec2d(-1, 0), Vec2d(0, 1)} : Drift(v)
    \/ \E v \in {Zero, Vec2d(50, 0)} : Command(v)
    \/ ComponentReset

SpecComp == InitComp /\ [][NextComp]_vars

(***************************************************************************)
(* src/src/push_2d/space/button.py: ButtonSpace, a Space with a list of    *)
(* lights (colors) and a collision handler for every pair of shapes, whose *)
(* pre_solve the solver calls in each tick for each pair that touches.     *)
(***************************************************************************)
MaxLights == 3       \* lights lit before the model stops lighting more

\* the components of the arena: a black wall, two coloured segments (the
\* buttons to push), the agent's circle and an obstacle's
ButtonShapes ==
    Id(0, "wall", 1) :> [kind |-> "Segment", color |-> "black"]
    @@ Id(0, "segment", 1) :> [kind |-> "Segment", color |-> "red"]
    @@ Id(0, "segment", 2) :> [kind |-> "Segment", color |-> "green"]
    @@ Id(0, "agent_shape", 0) :> [kind |-> "Circle", color |-> "blue"]
    @@ Id(0, "circle_shape", 1) :> [kind |-> "Circle", color |-> "red"]

\* ButtonSpace.__init__: a Space with no light
NewButtonSpace == [bodies |-> {}, shapes |-> {}, constraints |-> {},
                   colors |-> <<>>]

\* the shape pre_solve takes for the segment
Picked(pair) == IF pair[1].kind = "Segment" THEN pair[1] ELSE pair[2]

\* a variant that does not look at the last light
pre_solve_unlatched(pair, colors) ==
    IF Picked(pair).color = "black"
    THEN [value |-> TRUE, colors |-> colors]
    ELSE [value |-> FALSE, colors |-> Append(colors, Picked(pair).color)]

\* pre_solve(arbiter, space, _): the value returned and the lights left
pre_solve(pair, colors) ==
    IF Picked(pair).color = "black"
    THEN [value |-> TRUE, colors |-> colors]
    ELSE IF colors # <<>> /\ colors[Len(colors)] = Picked(pair).color
    THEN [value |-> TRUE, colors |-> colors]
    ELSE [value |-> FALSE, colors |-> Append(colors, Picked(pair).color)]

\* the pairs an arbiter may hold: two shapes of the Space, not both on the
\* static body, in either order
Arbiters ==
    {<<shapes[a], shapes[b]>> : a, b \in space.shapes} \ 
    {<<shapes[a], shapes[b]>> :
        a, b \in {x \in space.shapes : x.role \in {"wall", "segment"}}}

InitButton ==
    /\ agent_params = <<>>
    /\ obstacles_params = <<>>
    /\ reward_factory = "none"
    /\ space = NewButtonSpace
    /\ screen = BlankScreen(space_params)
    /\ bodies = static_body :> Body("STATIC", Zero)
    /\ shapes = ButtonShapes
    /\ constraints = <<>>
    /\ agent = <<>>
    /\ obstacles = <<>>
    /\ call = [op |-> "__init__"]
    /\ ret = [kind |-> "none"]
    /\ NewWindow
    /\ NoRecorder

button_rest ==
    <<agent_params, obstacles_params, reward_factory, screen, bodies, shapes,
      constraints, agent, obstacles, win_vars, rec_vars>>

\* component.add(to=space) for every component, as Push2D.reset does
ButtonAdd ==
    /\ space.shapes = {}
    /\ space' = [space EXCEPT !.shapes = DOMAIN shapes]
    /\ call' = [op |-> "add"]
    /\ ret' = [kind |-> "none"]
    /\ UNCHANGED button_rest

\* a tick in which the shapes of pair touch: the solver calls pre_solve
Collide(pair) ==
    \E r \in {pre_solve(pair, space.colors)} :
        /\ Len(r.colors) <= MaxLights
        /\ space' = [space EXCEPT !.colors = r.colors]
        /\ call' = [op |-> "pre_solve", shapes |-> pair]
        /\ ret' = [kind |-> "pre_solve", value |-> r.value]
        /\ UNCHANGED button_rest

\* ButtonSpace.clear: Space.clear, then colors.clear()
ButtonClear ==
    /\ space' = [space EXCEPT !.bodies = {}, !.shapes = {},
                              !.constraints = {}, !.colors = <<>>]
    /\ call' = [op |-> "clear"]
    /\ ret' = [kind |-> "clear"]
    /\ UNCHANGED button_rest

NextButton ==
    \/ ButtonAdd
    \/ \E pair \in Arbiters : Collide(pair)
    \/ ButtonClear

SpecButton == InitButton /\ [][NextButton]_vars

(***************************************************************************)
(* Properties of the environment (Spec).                                   *)
(***************************************************************************)
\* the flags of the action of the last step: up, down, left, right
Flag(i) == call.action.rows[1][i]

SqNorm(v) == v[1] * v[1] + v[2] * v[2]

InSpace == space.bodies \cup space.shapes \cup space.constraints

Walls == {sh \in space.shapes : shapes[sh].kind = "Segment"}

\* the constraints of the Space of one kind that hold body b from body a
Holding(kind, a, b) ==
    {c \in space.constraints :
        /\ constraints[c].kind = kind
        /\ constraints[c].a = a
        /\ constraints[c].b = b}

AtRest(b, body_type, position) ==
    bodies[b] = [body_type |-> body_type, position |-> position,
                 velocity |-> Zero]

\* C1: for every valid action, after any sequence of reset() and step()
\* calls, step() returns terminated = false and truncated = false
StepNeverEnds ==
    (call.op = "step" /\ call.action \in ValidActions /\ ret.kind = "step") =>
        (ret.terminated = FALSE /\ ret.truncated = FALSE)

\* a step that returned after the agent has left its initial position, in an
\* environment that has been reset with other obstacles
StepNeverEndsWitness ==
    /\ call.op = "step"
    /\ call.action \in ValidActions
    /\ ret.kind = "step"
    /\ ret.terminated = FALSE
    /\ ret.truncated = FALSE
    /\ ret.info.agent.position # agent_params.position
    /\ Len(obstacles) = 2

ClearIsIdempotent ==
    /\ [](call.op = "clear" => (ret.kind = "clear" /\ space = EmptySpace))
    /\ [](call.op \in {"render", "reset"} => ret.kind = call.op)
    /\ [][(call.op = "clear" /\ call'.op = "clear") => UNCHANGED vars]_vars
    /\ [][(call.op = "clear" /\ call'.op = "reset") =>
             agent'.body \in space'.bodies]_vars

\* a tick of the Space that a clear() has emptied: nothing is drawn
ClearIsIdempotentWitness ==
    /\ call.op = "render"
    /\ ret.kind = "render"
    /\ space = EmptySpace
    /\ screen.drawn = {}
    /\ Len(obstacles) = 2

\* C4: after clear() returns the Space tracks no Body, no Shape and no
\* Constraint; and no constraint of the Space ever references a body that is
\* not in the Space (the static body apart)
ClearRemovesAll ==
    /\ call.op = "clear" =>
          (space.bodies = {} /\ space.shapes = {} /\ space.constraints = {})
    /\ \A c \in space.constraints :
          /\ constraints[c].a \in space.bodies \cup {static_body}
          /\ constraints[c].b \in space.bodies

\* clear() on a populated Space: the last frame drawn shows the agent, two
\* obstacles and the walls, which the environment still refers to
ClearRemovesAllWitness ==
    /\ call.op = "clear"
    /\ ret.kind = "clear"
    /\ Cardinality(screen.drawn) = 7
    /\ Len(obstacles) = 2
    /\ agent.pivot \in DOMAIN constraints
    /\ InSpace = {}

\* C5: the info of every reset() and step() gives the arena parameters, the
\* agent's current position and velocity, and per obstacle its current
\* position, velocity and colour.  The agent's velocity is read here in the
\* weakest way: the number reported is the speed the agent's body moves at.
InfoIsCurrent ==
    ret.kind \in {"reset", "step"} =>
        /\ ret.info.space = space_params
        /\ ret.info.agent.position = bodies[agent.body].position
        /\ ret.info.agent.velocity * ret.info.agent.velocity =
              SqNorm(bodies[agent.body].velocity)
        /\ Len(ret.info.obstacles) = Len(obstacles)
        /\ \A i \in DOMAIN obstacles :
              /\ ret.info.obstacles[i].position =
                    bodies[obstacles[i].body].position
              /\ ret.info.obstacles[i].velocity =
                    bodies[obstacles[i].body].velocity
              /\ ret.info.obstacles[i].color = obstacles[i].params.color

RewardInRange ==
    ret.kind \in {"reset", "step"} =>
        \A cls \in RewardFactories :
            /\ get_reward(cls, ret.info).exc = ""
            /\ get_reward(cls, ret.info).value \in {0, 1, 2}

\* C10: for every action (up, down, left, right) in {0,1}^4, step() leaves
\* the control body with velocity agent_speed * (right - left, down - up)
DirectionsDecoded ==
    (call.op = "step" /\ call.action \in ValidActions) =>
        bodies[agent.control_body].velocity =
            <<agent_params.velocity * (Flag(4) - Flag(3)),
              agent_params.velocity * (Flag(2) - Flag(1))>>

\* up and down cancel and right remains: the control body moves right
DirectionsDecodedWitness ==
    /\ call.op = "step"
    /\ call.action = Array(1, <<<<1, 1, 0, 1>>>>)
    /\ bodies[agent.control_body].velocity = <<agent_params.velocity, 0>>
    /\ agent_params.velocity = 50

(***************************************************************************)
(* Properties of the reward factories (SpecFn).                            *)
(***************************************************************************)
\* the corners each class's docstring names for the red and the green circle
Documented ==
    [TopRightRedTopLeftGreen |-> [red |-> "top_left", green |-> "top_right"],
     TopLeftGreenTopRightRed |-> [red |-> "top_right", green |-> "top_left"],
     TopLeftRedBottomLeftGreen |->
         [red |-> "top_left", green |-> "bottom_left"],
     TopLeftGreenBottomLeftRed |->
         [red |-> "bottom_left", green |-> "top_left"],
     TopLeftRedBottomRightGreen |->
         [red |-> "top_left", green |-> "bottom_right"],
     TopLeftGreenBottomRightRed |->
         [red |-> "bottom_right", green |-> "top_left"],
     RightTopRedRightBottomGreen |->
         [red |-> "top_right", green |-> "bottom_right"],
     RightTopGreenRightBottomGreen |->
         [red |-> "bottom_right", green |-> "top_right"],
     TopRightRedBottomLeftGreen |->
         [red |-> "top_right", green |-> "bottom_left"],
     TopRightGreenBottomLeftRed |->
         [red |-> "bottom_left", green |-> "top_right"],
     BottomLeftRedBottomRightGreen |->
         [red |-> "bottom_left", green |-> "bottom_right"],
     BottomLeftGreenBottomRightRed |->
         [red |-> "bottom_right", green |-> "bottom_left"]]

\* whether a circle is in a corner of the arena, with margin 30
InCorner(corner, c, sp) ==
    LET top == c.position[2] < c.radius + 30
        bottom == c.position[2] > sp.height - c.radius - 30
        left == c.position[1] < c.radius + 30
        right == c.position[1] > sp.width - c.radius - 30
    IN  CASE corner = "top_left" -> top /\ left
          [] corner = "top_right" -> top /\ right
          [] corner = "bottom_left" -> bottom /\ left
          [] corner = "bottom_right" -> bottom /\ right

\* the first obstacle of a colour or, when there is none, the first obstacle
TheCircle(obs, color) ==
    IF \E i \in DOMAIN obs : obs[i].color = color
    THEN obs[CHOOSE i \in DOMAIN obs :
                /\ obs[i].color = color
                /\ \A j \in 1..(i - 1) : obs[j].color # color]
    ELSE obs[1]

Half(condition) == IF condition THEN 1 ELSE 0

\* C8: for every red and green factory and every info with an obstacle,
\* get_reward is 0.5 if the red circle is in the factory's corner for red
\* plus 0.5 if the green circle is in its corner for green, each counted on
\* its own; in the arena of 300 by 225 a red circle of radius 30 at (10, 10)
\* and a green one at (10, 190) earn 1.0 under TopLeftRedBottomLeftGreen
RewardIsHalfPerCorner ==
    (/\ call.op = "get_reward"
     /\ ret.kind = "get_reward"
     /\ reward_factory # "AbstractRewardFactory"
     /\ Len(call.info.obstacles) > 0) =>
        /\ ret.exc = ""
        /\ ret.value =
             Half(InCorner(Documented[reward_factory].red,
                           TheCircle(call.info.obstacles, "red"),
                           call.info.space))
             + Half(InCorner(Documented[reward_factory].green,
                             TheCircle(call.info.obstacles, "green"),
                             call.info.space))
        /\ (/\ reward_factory = "TopLeftRedBottomLeftGreen"
            /\ call.info.space.width = 300
            /\ call.info.space.height = 225
            /\ call.info.obstacles =
                  <<CircleParameters(30, <<10, 10>>, "red", 0),
                    CircleParameters(30, <<10, 190>>, "green", 0)>>)
           => ret.value = 2

\* the scenario: 1.0 under TopLeftRedBottomLeftGreen
RewardIsHalfPerCornerWitness ==
    /\ call.op = "get_reward"
    /\ ret.kind = "get_reward"
    /\ reward_factory = "TopLeftRedBottomLeftGreen"
    /\ call.info.space = Arena
    /\ call.info.obstacles = <<CircleParameters(30, <<10, 10>>, "red", 0),
                               CircleParameters(30, <<10, 190>>, "green", 0)>>
    /\ ret.value = 2

\* C9: with margin 30 a circle is top iff y < radius + margin, bottom iff
\* y > height - radius - margin, left iff x < radius + margin, right iff
\* x > width - radius - margin, all strict; a corner is the conjunction of
\* its two sides; a circle at (radius + margin - 1, radius + margin - 1) is
\* top-left, one at (radius + margin, radius + margin) or at
\* (radius + margin + 1, radius + margin + 1) is not
BandsAreStrict ==
    (call.op = "circle_is" /\ ret.kind = "circle_is") =>
        LET x == call.circle_parameters.position[1]
            y == call.circle_parameters.position[2]
            radius == call.circle_parameters.radius
            width == call.space_parameters.width
            height == call.space_parameters.height
        IN  /\ ret.top <=> y < radius + 30
            /\ ret.bottom <=> y > height - radius - 30
            /\ ret.left <=> x < radius + 30
            /\ ret.right <=> x > width - radius - 30
            /\ ret.top_left <=> (ret.top /\ ret.left)
            /\ ret.top_right <=> (ret.top /\ ret.right)
            /\ ret.bottom_left <=> (ret.bottom /\ ret.left)
            /\ ret.bottom_right <=> (ret.bottom /\ ret.right)
            /\ (x = radius + 30 - 1 /\ y = radius + 30 - 1) => ret.top_left
            /\ (x = radius + 30 /\ y = radius + 30) => ~ret.top_left
            /\ (x = radius + 30 + 1 /\ y = radius + 30 + 1) => ~ret.top_left

\* a circle exactly on both edges: neither top nor left
BandsAreStrictWitness ==
    /\ call.op = "circle_is"
    /\ ret.kind = "circle_is"
    /\ call.circle_parameters.position =
          <<call.circle_parameters.radius + 30,
            call.circle_parameters.radius + 30>>
    /\ ~ret.top
    /\ ~ret.left
    /\ ~ret.top_left

(***************************************************************************)
(* Properties of the ticks, normal and accelerated (SpecAcc).              *)
(***************************************************************************)
\* the frame an observation shows when the shapes of the Space are
\* rasterized where the bodies are in this state
FrameNow ==
    [dims |-> <<space_params.height, space_params.width, 3>>,
     fill |-> space_params.color,
     drawn |-> {[d EXCEPT !.at = <<d.at[2], d.at[1]>>,
                          !.to = <<d.to[2], d.to[1]>>] : d \in Drawn(TheWorld)}]

\* the positions the configuration gives to the agent and to the obstacles
Configured ==
    {agent_params.position}
    \cup {obstacles_params[i].position : i \in DOMAIN obstacles_params}

AcceleratedAsNormal ==
    [][(acceleration /\ call'.op \in {"reset", "step"}) =>
          /\ display' = display
          /\ clock' = clock
          /\ call'.op = "step" =>
                \E r \in {environment_step(TheEnv, call'.action, agent,
                                           obstacles, space_params, FALSE)} :
                    /\ World(space', screen', bodies', shapes', constraints', "")
                          = r.env.world
                    /\ ret' = r.ret
          /\ call'.op = "reset" =>
                \E r \in {environment_reset(TheEnv, <<agent>>, obstacles,
                                            agent_params, obstacles_params,
                                            space_params, FALSE)} :
                    /\ World(space', screen', bodies', shapes', constraints', "")
                          = r.env.world
                    /\ agent' = r.agent
                    /\ obstacles' = r.obstacles
                    /\ ret' = r.ret
      ]_vars

\* an accelerated step that moved the agent: the window still shows an older
\* frame and the clock has not waited for it
AcceleratedAsNormalWitness ==
    /\ acceleration
    /\ call.op = "step"
    /\ ret.kind = "step"
    /\ display # screen
    /\ clock = 1
    /\ bodies[agent.body].velocity # Zero

(***************************************************************************)
(* Properties of the recorders (SpecRec, SpecSave).                        *)
(***************************************************************************)
\* the calls a recorder method has made
Made == {ret.made[i] : i \in DOMAIN ret.made}

\* the samples a pass has added to the buffers
Added == (Len(actions) + 1)..Len(actions')

\* what a Saver records in a pass: the arrow's action, which is the one the
\* step has given the control body its velocity from, with the frame that
\* step has rasterized and returned
SaverSample(i) ==
    /\ "step" \in Made'
    /\ actions'[i] \in {Array(1, <<direction[k]>>) : k \in DOMAIN direction}
    /\ bodies'[agent'.control_body].velocity =
          VecMul(Unpack(np_dot(actions'[i], directions).value).value,
                 agent'.params.velocity)
    /\ observations'[i] = get_observation(TheWorld)'
    /\ observations'[i] = ret'.observation

\* what Env records at an s: where the tracker is, at once or after the
\* reset of an r polled before, with the frame on the screen
EnvSample(i) ==
    /\ actions'[i] \in {bodies[tracker[1].body].position, cfg.tracker.position}
    /\ ("reset" \notin Made') =>
          actions'[i] = bodies[tracker[1].body].position
    /\ observations'[i] = get_observation(TheWorld)

\* C12: the two buffers of a recorder have the same length in every state,
\* and a pass that adds a sample keeps the samples before it and appends the
\* action together with the observation obtained for it
BuffersAligned ==
    /\ [](Len(actions) = Len(observations))
    /\ [][Len(actions') > Len(actions) =>
            /\ SubSeq(actions', 1, Len(actions)) = actions
            /\ SubSeq(observations', 1, Len(observations)) = observations
            /\ \A i \in Added :
                  IF recorder = "Env.follow" THEN EnvSample(i)
                  ELSE SaverSample(i)
         ]_vars

\* a Saver holding a sample whose frame shows the agent where it no longer is
BuffersAlignedWitness ==
    /\ recorder \in {"Saver.follow", "Saver.listen"}
    /\ Len(actions) = 1
    /\ Len(observations) = 1
    /\ bodies[agent.control_body].position \notin
          {Transpose(d.at) : d \in observations[1].drawn}

\* the files of every data directory
Data == {n \in DOMAIN files : n.dir # <<>>}

\* the two files of capture num in the directory a save made now writes to
ActionPath(num) == Path(dirname(recorder, now), ActionStem(recorder), num)

ObservationPath(num) ==
    Path(dirname(recorder, now), ObservationStem(recorder), num)

\* the samples the last call has appended
Sampled == Cardinality({n \in DOMAIN ret.made : ret.made[n] = "capture"})

\* the buffers were cleared by a reset before the last call's first sample
ResetFirst ==
    /\ recorder # "Saver.follow"
    /\ \E i, j \in DOMAIN ret.made :
          i < j /\ ret.made[i] = "reset" /\ ret.made[j] = "capture"

\* the step has added capture num to the directory: two whole arrays of
\* save_length rows, which begin with the samples buffered before; the
\* buffers keep only what was sampled after the save
NewCapture(num) ==
    /\ Data' \ Data = {ActionPath(num), ObservationPath(num)}
    /\ \A n \in Data' \ Data :
          files'[n].whole /\ Len(files'[n].rows) = save_length
    /\ SubSeq(files'[ActionPath(num)].rows, 1, Len(actions)) = actions
    /\ SubSeq(files'[ObservationPath(num)].rows, 1, Len(observations)) =
          observations
    /\ "save" \in Made'
    /\ Len(actions') = Len(actions) + Sampled' - save_length
    /\ Len(observations') = Len(actions')

\* C13: a pass of a loop in which the samples buffered reach the configured
\* length saves both buffers as arrays of exactly that many rows and empties
\* them; the buffers never hold more than that, and the data directory
\* changes in no other step
SavedAtLength ==
    /\ [](Len(actions) < save_length /\ Len(observations) < save_length)
    /\ [][/\ (Sampled' > 0 /\ ~ResetFirst'
                 /\ Len(actions) + Sampled' >= save_length) =>
                \E num \in 0..MaxCaptures : NewCapture(num)
          /\ Data' # Data =>
                \E num \in 0..MaxCaptures : NewCapture(num)
         ]_vars

\* each loop has saved a capture in the pass that sampled its last row
SavedAtLengthWitness ==
    /\ call.op \in {"follow", "listen"}
    /\ "save" \in Made
    /\ Sampled > 0
    /\ actions = <<>>
    /\ \E n \in Data : Len(files[n].rows) = save_length

\* the files of directory dir are the whole arrays of captures 0 .. j - 1
Complete(fs, dir, j) ==
    /\ glob(fs, dir) =
          {Path(dir, stem, k) :
              stem \in {ActionStem(recorder), ObservationStem(recorder)},
              k \in 0..(j - 1)}
    /\ \A n \in glob(fs, dir) : fs[n].whole

\* file n of a data directory belongs to a capture saved whole
InCapture(n) ==
    /\ Path(n.dir, ActionStem(recorder), n.num) \in DOMAIN files
    /\ Path(n.dir, ObservationStem(recorder), n.num) \in DOMAIN files
    /\ files[Path(n.dir, ActionStem(recorder), n.num)].whole
    /\ files[Path(n.dir, ObservationStem(recorder), n.num)].whole

\* the files of the data directories a step has made or written again
Touched == {n \in Data' : n \notin Data \/ files'[n] # files[n]}

\* C14: a save numbers its two files by half the number of files in its
\* directory, rounded down, and gives both the same number; in a directory of
\* j whole captures the next one saved is capture j, whichever recorder
\* instance saves it; no file of a capture saved whole is written again
NumberedByCount ==
    [][/\ \A n \in Touched :
             /\ n.dir = dirname(recorder, now)
             /\ n.num = Cardinality(glob(files, dirname(recorder, now))) \div 2
       /\ ("save" \in Made' /\ ret'.exc = "") =>
             \E num \in 0..MaxCaptures :
                /\ Touched \subseteq {ActionPath(num), ObservationPath(num)}
                /\ ObservationPath(num) \in Touched
                /\ files'[ActionPath(num)].whole
                /\ files'[ObservationPath(num)].whole
                /\ \A j \in 0..MaxCaptures :
                      Complete(files, dirname(recorder, now), j) =>
                         /\ num = j
                         /\ Complete(files', dirname(recorder, now), j + 1)
       /\ \A n \in Data : InCapture(n) => files'[n] = files[n]
      ]_vars

\* a directory with the captures 0, 1 and 2 and nothing else, of which 0 and
\* 2 begin with the blank frame of a new Env: two instances have saved them
NumberedByCountWitness ==
    /\ recorder = "Env.follow"
    /\ Complete(files, dirname(recorder, now), 3)
    /\ \A k \in {0, 2} : files[ObservationPath(k)].rows[1].drawn = {}

\* C15: save() called while the buffers hold no sample is a no-op: it raises
\* nothing, writes no file and leaves the recorder as it was
EmptySaveIsNoOp ==
    [][(call'.op = "save" /\ actions = <<>> /\ observations = <<>>) =>
          /\ ret'.kind = "return"
          /\ files' = files
          /\ actions' = actions
          /\ observations' = observations
          /\ is_save' = is_save
      ]_vars

\* C16: a save in which a write fails raises the error to its caller and
\* keeps every sample in the two buffers, those of the pass included; a
\* save() that then succeeds writes exactly those samples as the action
\* array and the observation array of one capture number
FailedSaveKeeps ==
    [][/\ ("save" \in Made' /\ ret'.exc = "OSError") =>
             /\ ret'.kind = "raise"
             /\ Len(actions') = Len(actions) + Sampled'
             /\ Len(observations') = Len(actions')
             /\ SubSeq(actions', 1, Len(actions)) = actions
             /\ SubSeq(observations', 1, Len(observations)) = observations
             /\ actions' # <<>>
       /\ (call'.op = "save" /\ ret'.kind = "return") =>
             \E num \in 0..MaxCaptures :
                /\ files'[ActionPath(num)] = [rows |-> actions, whole |-> TRUE]
                /\ files'[ObservationPath(num)] =
                      [rows |-> observations, whole |-> TRUE]
                /\ Len(actions) = Len(observations)
      ]_vars

\* a save() has succeeded in a directory where a failed one had left the
\* stump of an observation array
FailedSaveKeepsWitness ==
    /\ call.op = "save"
    /\ ret.kind = "return"
    /\ \E n \in Data :
          /\ ~files[n].whole
          /\ n.stem = ObservationStem(recorder)
          /\ Path(n.dir, n.stem, n.num + 1) \in Data
          /\ files[Path(n.dir, n.stem, n.num + 1)].whole
          /\ Len(files[Path(n.dir, n.stem, n.num + 1)].rows) = save_length

\* C17: a replay of the L actions of a capture gives L + 1 observations, the
\* one of the reset and one for each action, and the agent is in them where
\* the capture has it: observation i + 1 of the replay is observation i of
\* the capture
ReplayRetraces ==
    [][(call'.op = "replay" /\ recorder = "Saver.follow"
           /\ ret'.kind = "return") =>
          /\ Len(ret'.out) = save_length + 1
          /\ \A i \in 1..save_length :
                ret'.out[i + 1] =
                   files[Path(<<"data">>, "raw_obs", call'.capture)].rows[i]
      ]_vars

\* how far a tick takes the tracker once its pivot has held it back
Pace(c) ==
    (c.tracker.velocity - CirclePivotMaxForce \div (CircleMass * c.screen.fps))
        \div c.screen.fps

\* what is left of a distance d after n ticks toward the target
Left(d, n, c) == Max(0, (IF d < 0 THEN -d ELSE d) - n * Pace(c))

Ticks == Cardinality({n \in DOMAIN ret.made : ret.made[n] = "tick"})

\* C18: Env.replay(action) makes fps // save_fps ticks, none when save_fps
\* is above fps, and commands the tracker toward the recorded position
\* before each of them: the tracker closes in by one pace a tick and stays
\* at the position once it is there
ReplaySpan ==
    [][(call'.op = "replay" /\ recorder = "Env.follow"
           /\ ret'.kind = "return") =>
          /\ ret'.ticks = cfg.screen.fps \div cfg.save.fps
          /\ Ticks' = ret'.ticks
          /\ cfg.save.fps > cfg.screen.fps => ret'.ticks = 0
          /\ ret'.ticks = 0 =>
                bodies' = bodies /\ screen' = screen /\ display' = display
          /\ \A i \in {1, 2} :
                Left(call'.action[i] - bodies'[tracker'[1].body].position[i],
                     0, cfg) =
                   Left(call'.action[i] - bodies[tracker[1].body].position[i],
                        ret'.ticks, cfg)
      ]_vars

\* two ticks of which the first has taken the tracker to the position
ReplaySpanWitness ==
    /\ call.op = "replay"
    /\ recorder = "Env.follow"
    /\ ret.kind = "return"
    /\ ret.ticks = 2
    /\ bodies[tracker[1].body].position = Vec2d(call.action[1], call.action[2])
    /\ \E d \in screen.drawn : d.at = bodies[tracker[1].body].position

\* C19: in each of the three loops the pass that polls a quit event is the
\* last one, and it calls nothing after the quit: no reset, no step, no
\* tick, no capture, no save
QuitExits ==
    [][(call'.op \in {"follow", "listen"} /\ "quit" \in Made') =>
          /\ loop' # "running"
          /\ \A i \in DOMAIN ret'.made :
                ret'.made[i] = "quit" => i = Len(ret'.made)
      ]_vars

(***************************************************************************)
(* Properties of the tracking environment (SpecTrack).                     *)
(***************************************************************************)
\* the bodies the solver leaves when step() has written the velocity of
\* body b and of nothing else
SolverMade(b, sp) ==
    render([TheWorld EXCEPT !.bodies[b].velocity = bodies'[b].velocity],
           sp).bodies

\* C21: step() writes only the velocity of a kinematic control body; the
\* agent's dynamic body and the obstacles' bodies are what the solver makes
\* of the bodies of the state before.
StepCommandsControlOnly ==
    [][(call'.op = "step" /\ ret'.kind = "step")
       => \E b \in DOMAIN bodies :
             /\ bodies[b].body_type = "KINEMATIC"
             /\ bodies' = SolverMade(b, TrackSpace)]_vars

(***************************************************************************)
(* Properties of the actuator (SpecPivot).                                 *)
(***************************************************************************)
Abs(x) == IF x < 0 THEN -x ELSE x

\* a circle of radius r at p touches a wall
Touching(p, r) ==
    \E sh \in space.shapes, i \in 1..2 :
        /\ shapes[sh].kind = "Segment"
        /\ shapes[sh].a[i] = shapes[sh].b[i]
        /\ Abs(p[i] - shapes[sh].a[i]) <= r + shapes[sh].radius

\* the most a tick changes the velocity of the agent's body
PivotCap == AgentPivotMaxForce \div (AgentMass * PivotSpace.fps)

\* from velocity v to v1 under the command c: nearer, not beyond, by at most
\* the cap, and not at rest short of c
Approaches(v, v1, c) ==
    /\ Abs(c - v1) <= Abs(c - v)
    /\ (c - v) * (c - v1) >= 0
    /\ Abs(v1 - v) <= PivotCap
    /\ (v # c => v1 # v)

Within(v, r, side) == r <= v /\ v <= side - r

\* the circle is drawn inside the arena, or there is no room and randint
\* raises
DrawnInside(c, r) ==
    \/ /\ r.exc = ""
       /\ r.value.radius = c.radius /\ r.value.color = c.color
       /\ Within(r.value.position[1], c.radius, c.screen_width[1])
       /\ Within(r.value.position[2], c.radius, c.screen_height[1])
    \/ /\ r.exc = "ValueError"
       /\ \/ c.screen_width[1] < 2 * c.radius
          \/ c.screen_height[1] < 2 * c.radius

\* C23: without a position and without both screen_width and screen_height
\* from_dictconfig raises and gives no circle; with both and no position the
\* circle is at radius <= x <= width - radius, radius <= y <= height -
\* radius (randint raises when there is no such place); a position that is
\* given is the circle's, whatever the bounds.
PlacedOrRaises ==
    ret.kind = "from_dictconfig" =>
        IF Has(call.cfg, "position")
        THEN ret.exc = "" /\ ret.value.position = call.cfg.position[1]
        ELSE IF Has(call.cfg, "screen_width") /\ Has(call.cfg, "screen_height")
        THEN DrawnInside(call.cfg, ret)
        ELSE ret.exc = "NotImplementedError" /\ ret.value = 0

\* a configuration with a width, no height and no position was refused
PlacedOrRaisesWitness ==
    /\ ret.kind = "from_dictconfig"
    /\ ~Has(call.cfg, "position")
    /\ Has(call.cfg, "screen_width") /\ ~Has(call.cfg, "screen_height")
    /\ ret.exc = "NotImplementedError"

\* the square of the length of v
Norm2(v) == v[1] * v[1] + v[2] * v[2]

\* the velocity the step being taken commands
TheCommand ==
    Commanded(bodies[agent.body].position, call'.action,
              agent.params.velocity)

\* C24: in tracking mode the velocity commanded for a target has the length
\* of the agent's speed whenever the target is not the agent's position, and
\* is zero when it is.
CommandedAtSpeed ==
    [][call'.op = "step"
       => IF call'.action = bodies[agent.body].position
          THEN TheCommand = Zero
          ELSE Norm2(TheCommand)
                  = agent.params.velocity * agent.params.velocity]_vars

(***************************************************************************)
(* Properties of the resettable components (SpecComp).                     *)
(***************************************************************************)
\* C25: reset() of a component calls its constructor again with the
\* arguments it stored and leaves the component as it was when it had just
\* been made, whatever its class and whatever happened to it before
\* (earlier resets included).
ComponentResetRebuilds ==
    [][call'.op = "component.reset"
       => /\ ret'.kind = "component.reset"
          /\ agent' = Construct(agent_params.cls, agent_params.args,
                                agent_params.kwargs).value]_vars

RECURSIVE Buffered(_, _, _)
\* how many samples the buffers hold after the first n things a pass has
\* done, when they held b before and a reset (like a save) empties them
Buffered(made, n, b) ==
    IF n = 0 THEN b
    ELSE IF made[n] \in {"reset", "save"} THEN 0
    ELSE IF made[n] = "capture" THEN Buffered(made, n - 1, b) + 1
    ELSE Buffered(made, n - 1, b)

\* C26: after a reset request (the r key or reset()) both buffers are empty:
\* after a pass of a recording loop that handled one, the buffers hold only
\* the samples taken since, and so does a capture the pass has saved.
ResetEmptiesBuffers ==
    [][(/\ call'.op \in {"follow", "listen"}
        /\ ret'.exc = ""
        /\ "reset" \in Made')
       => /\ Len(actions') = Buffered(ret'.made, Len(ret'.made), Len(actions))
          /\ Len(observations') = Len(actions')
          /\ \A n \in Touched :
                \E j \in DOMAIN ret'.made :
                   /\ ret'.made[j] = "save"
                   /\ Len(files'[n].rows)
                         = Buffered(ret'.made, j - 1, Len(actions))]_vars

\* the circles a frame shows: where (in x, y), how large and of what colour
Depicted(frame) ==
    {[position |-> Vec2d(d.at[2], d.at[1]), radius |-> d.radius,
      color |-> d.color] : d \in {x \in frame.drawn : x.kind = "Circle"}}

\* the circles an info reports
Reported(info) ==
    {[position |-> c.position, radius |-> c.radius, color |-> c.color] :
        c \in {info.agent} \cup {info.obstacles[i] : i \in DOMAIN info.obstacles}}

Chosen(options, key, stored) ==
    IF options[key] = <<>> THEN stored ELSE options[key][1]

\* the reset has built the agent and the obstacles from the parameters it
\* leaves stored
BuiltFromStored ==
    /\ agent'.params = agent_params'
    /\ ret'.info.agent.position = agent_params'.position
    /\ Len(obstacles') = Len(obstacles_params')
    /\ \A i \in DOMAIN obstacles_params' :
          /\ obstacles'[i].params = obstacles_params'[i]
          /\ ret'.info.obstacles[i].position = obstacles_params'[i].position

\* C28: reset(options=...) stores the agent_params and the obstacles_params
\* it is given and keeps what it is not given; every reset builds from what
\* is stored then, so an override lasts over the later resets without
\* options; nothing else changes the stored parameters.
OverrideIsStored ==
    [][/\ call'.op = "reset" =>
             /\ agent_params' =
                   Chosen(call'.options, "agent_params", agent_params)
             /\ obstacles_params' =
                   Chosen(call'.options, "obstacles_params", obstacles_params)
             /\ ret'.kind = "reset"
             /\ BuiltFromStored
       /\ call'.op # "reset" => UNCHANGED <<agent_params, obstacles_params>>
      ]_vars

\* a reset() without options after an override of the agent's parameters:
\* the agent is built where the override put it, not where the constructor's
\* parameters do
OverrideIsStoredWitness ==
    /\ call.op = "reset"
    /\ call.options.agent_params = <<>>
    /\ call.options.obstacles_params = <<>>
    /\ agent_params = AGENT2 /\ agent.params = AGENT2
    /\ ret.info.agent.position = AGENT2.position
    /\ ret.info.agent.position # AGENT.position

(***************************************************************************)
(* Properties of ButtonSpace (SpecButton).                                 *)
(***************************************************************************)
\* no light is black and no two lights next to one another are alike
LightsDiffer ==
    /\ \A i \in DOMAIN space.colors : space.colors[i] # "black"
    /\ \A i \in DOMAIN space.colors :
          i > 1 => space.colors[i] # space.colors[i - 1]

\* the segment of the collision pre_solve was called for
HitSegment ==
    IF call'.shapes[1].kind = "Segment" THEN call'.shapes[1]
    ELSE call'.shapes[2]

\* the segment is black or of the colour of the last light
Repeats ==
    \/ HitSegment.color = "black"
    \/ /\ space.colors # <<>>
       /\ space.colors[Len(space.colors)] = HitSegment.color

\* C29: the lights never hold black nor the same colour twice in a row; for
\* a collision with a segment pre_solve returns true, and changes nothing,
\* exactly when the segment is black or of the colour of the last light, and
\* otherwise appends its colour and returns false; clear() leaves no light.
LightsAlternate ==
    /\ []LightsDiffer
    /\ [][/\ (/\ call'.op = "pre_solve"
              /\ \E i \in 1..2 : call'.shapes[i].kind = "Segment")
             => /\ ret'.value = Repeats
                /\ space'.colors = IF Repeats THEN space.colors
                                   ELSE Append(space.colors, HitSegment.color)
          /\ call'.op = "clear" => space'.colors = <<>>
         ]_vars

\* the agent has hit the green segment after the red one, then the wall
LightsAlternateWitness ==
    /\ call.op = "pre_solve"
    /\ call.shapes[2] = [kind |-> "Segment", color |-> "black"]
    /\ ret.value = TRUE
    /\ space.colors = <<"red", "green">>

\* C30: only colours of segments are appended to the lights: a collision of
\* two shapes neither of which is a Segment is processed (pre_solve returns
\* true) and lights nothing.
OnlySegmentsLight ==
    [][(/\ call'.op = "pre_solve"
        /\ \A i \in 1..2 : call'.shapes[i].kind # "Segment")
       => ret'.value = TRUE /\ space'.colors = space.colors]_vars

====
